---- MODULE Spec2Model ----
(***************************************************************************)
(* A model of tabspace's text-pattern-to-annotation synchronisation:       *)
(* the PriorityMark and CustomTagMark extensions of the editor, the        *)
(* settings store that configures the custom tags, and the editor's        *)
(* lifecycle hooks that run the reconciliation passes; of the content      *)
(* outline with its scrolling, and of the extension's background worker.   *)
(*                                                                         *)
(* The document is one paragraph of characters.  Every character carries   *)
(* at most one priorityMark and at most one customTagMark (a mark type     *)
(* excludes itself).  A text node of the editor is a maximal run of        *)
(* characters with equal marks; the paragraph opens at document position   *)
(* 0, so the character with index i occupies the positions [i, i+1).       *)
(***************************************************************************)
EXTENDS Integers, Sequences, FiniteSets, TLC

VARIABLES
    doc,         \* editor.state.doc: the paragraph, a sequence of cells
    customTags,  \* useSettingsStore().customTags
    storage,     \* localStorage 'blocks': the document last saved
    pending,     \* the listeners still to run, innermost emit first
    last,        \* what the listener that ran last did (its transaction)
    hung,        \* TRUE once a listener entered a loop it never leaves
    tasks,       \* the task list held by the caller of setTasks
    positions,   \* positions.current: uid -> bounding rectangle
    effects,     \* the effects the last call of refreshTasks appended
    completed,   \* completedTasks of the last call of refreshTasks
    notified,    \* whether that call returned a new list to setTasks
    content,     \* ContentOutline's content: editor.getJSON(), NoContent for null
    outlineItems, \* ContentOutline's outlineItems: buildOutlineTree(content)
    sortedItems, \* sortItemsWithinSections(outlineItems)
    scrollLog,   \* what the last call of scrollToPosition logged and requested
    reloadTxt,   \* the text of reload.txt, NoFile while the file does not exist
    lastReloadTime, \* background.js: lastReloadTime
    observed,    \* the timestamps the poller has read since the worker started
    polls,       \* the polls awaiting their fetch
    reloads,     \* the calls of chrome.runtime.reload() so far
    tabs,        \* the tabs of the browser
    calls        \* the calls of openTabSpace awaiting chrome.tabs.query

\* The state outside the editor: the page's scroll requests and the
\* extension's background worker.
shell == <<scrollLog, reloadTxt, lastReloadTime, observed, polls, reloads, tabs, calls>>

vars == <<doc, customTags, storage, pending, last, hung, tasks, positions, effects, completed,
          notified, content, outlineItems, sortedItems, shell>>

(***************************************************************************)
(* Bounds of the model.                                                    *)
(***************************************************************************)
MaxLen == 3      \* characters in the paragraph
MaxTags == 1     \* tag definitions in the settings store
MaxPatterns == 2 \* tag definitions of a configuration the editor is opened under
MaxScrollBlocks == 2 \* blocks of a document whose outline items are clicked
MaxUids == 3     \* uids handed to timedTask marks
MaxStoreTags == 4 \* tag definitions in a store that starts from the default list
MaxText == 5     \* characters of the text the outline takes a priority from
MaxBlocks == 3   \* top-level blocks of the content the outline is built of
MaxChildren == 4 \* children of a section of an item list written by hand

(***************************************************************************)
(* Characters.                                                             *)
(***************************************************************************)
\* The characters the user types in the model.
Chars == {"p", "1", " ", "r"}

Digits == {"0", "1", "2", "3", "4", "5", "6", "7", "8", "9"}

\* \w of the regular expressions: letters, digits and underscore.
IsWord(c) ==
    c \in {"a", "b", "c", "d", "e", "f", "g", "h", "i", "j", "k", "l", "m", "n", "o", "p", "q",
           "r", "s", "t", "u", "v", "w", "x", "y", "z", "P", "R", "_"} \cup Digits

\* String.prototype.toLowerCase, character by character.
LowerChar(c) == CASE c = "P" -> "p" [] c = "R" -> "r" [] OTHER -> c

toLowerCase(s) == [k \in 1..Len(s) |-> LowerChar(s[k])]

\* parseInt of a string of decimal digits.
RECURSIVE parseInt(_)
parseInt(ds) ==
    IF Len(ds) = 0 THEN 0
    ELSE 10 * parseInt(SubSeq(ds, 1, Len(ds) - 1))
         + (CHOOSE v \in 0..9 : <<"0", "1", "2", "3", "4", "5", "6", "7", "8", "9">>[v + 1] = ds[Len(ds)])

TRANSPARENCY == "55"
P0_COLOR == "#ff0000" \o TRANSPARENCY
P1_COLOR == "#ff6600" \o TRANSPARENCY
P2_COLOR == "#ffaa00" \o TRANSPARENCY
P3_COLOR == "#ffff00" \o TRANSPARENCY
P4_COLOR == "#00aa00" \o TRANSPARENCY
DEFAULT_COLOR == "#99999933"
P5_PLUS_COLOR == "#00cc00" \o TRANSPARENCY

\* priority.match(/^p(\d+)$/i)
IsPriorityLabel(priority) ==
    /\ Len(priority) >= 2
    /\ LowerChar(priority[1]) = "p"
    /\ \A k \in 2..Len(priority) : priority[k] \in Digits

\* A variant without the branch of the levels from 5 on.
calculatePriorityColorUpTo4(priority) ==
    IF ~IsPriorityLabel(priority) THEN DEFAULT_COLOR
    ELSE LET level == parseInt(SubSeq(priority, 2, Len(priority)))
         IN CASE level = 0 -> P0_COLOR
              [] level = 1 -> P1_COLOR
              [] level = 2 -> P2_COLOR
              [] level = 3 -> P3_COLOR
              [] level = 4 -> P4_COLOR
              [] OTHER -> DEFAULT_COLOR

calculatePriorityColor(priority) ==
    IF ~IsPriorityLabel(priority) THEN DEFAULT_COLOR
    ELSE LET level == parseInt(SubSeq(priority, 2, Len(priority)))
         IN CASE level = 0 -> P0_COLOR
              [] level = 1 -> P1_COLOR
              [] level = 2 -> P2_COLOR
              [] level = 3 -> P3_COLOR
              [] level = 4 -> P4_COLOR
              [] OTHER -> IF level >= 5 THEN P5_PLUS_COLOR ELSE DEFAULT_COLOR

(***************************************************************************)
(* Marks and text nodes.                                                   *)
(***************************************************************************)
NoMark == [type |-> "none"]

\* A character with its marks: priorityMark, customTagMark and timedTask.
\* Text is typed or inserted without a timedTask mark.
Cell(c, pm, ct) == [ch |-> c, pm |-> pm, ct |-> ct, tt |-> NoMark]

MarksOf(cell) == <<cell.pm, cell.ct, cell.tt>>

\* The indexes at which a text node starts: the marks change there.
NodeStarts(d) ==
    {i \in 1..Len(d) : i = 1 \/ MarksOf(d[i - 1]) # MarksOf(d[i])}

\* The index of the last character of the text node that starts at s.
NodeEnd(d, s) ==
    LET later == {i \in NodeStarts(d) : i > s}
    IN IF later = {} THEN Len(d)
       ELSE (CHOOSE i \in later : \A j \in later : i <= j) - 1

\* node.text of the text node that starts at s.
NodeText(d, s) == [k \in 1..(NodeEnd(d, s) - s + 1) |-> d[s + k - 1].ch]

\* The text nodes of the document in document order (doc.descendants).
RECURSIVE SortedSeq(_)
SortedSeq(S) ==
    IF S = {} THEN <<>>
    ELSE LET m == CHOOSE x \in S : \A y \in S : x <= y
         IN <<m>> \o SortedSeq(S \ {m})

descendants(d) == SortedSeq(NodeStarts(d))

(***************************************************************************)
(* The regular expressions.  An index is 0-based, as in JavaScript: the    *)
(* index j lies between the characters t[j] and t[j+1] of the 1-based      *)
(* sequence t.                                                             *)
(***************************************************************************)
NoMatch == [index |-> -1, len |-> 0]

WordAt(t, k) == k \in 1..Len(t) /\ IsWord(t[k])

\* \b at index j of the text t.
WordBoundary(t, j) == WordAt(t, j) # WordAt(t, j + 1)

\* The length of the match of /\b(p\d+)\b/i that starts at index j, 0 if
\* there is none: \d+ is greedy and gives digits back until \b holds.
PriorityMatchLen(t, j) ==
    IF ~(WordBoundary(t, j) /\ j + 1 <= Len(t) /\ LowerChar(t[j + 1]) = "p")
    THEN 0
    ELSE LET ks == {k \in 1..(Len(t) - j - 1) :
                       /\ \A q \in 1..k : t[j + 1 + q] \in Digits
                       /\ WordBoundary(t, j + 1 + k)}
         IN IF ks = {} THEN 0
            ELSE 1 + (CHOOSE k \in ks : \A q \in ks : q <= k)

\* regex.exec(text) of /\b(p\d+)\b/gi with regex.lastIndex = lastIndex.
PriorityExec(t, lastIndex) ==
    LET js == {j \in lastIndex..Len(t) : PriorityMatchLen(t, j) > 0}
    IN IF js = {} THEN NoMatch
       ELSE LET j == CHOOSE x \in js : \A y \in js : x <= y
            IN [index |-> j, len |-> PriorityMatchLen(t, j)]

\* while ((match = regex.exec(node.text)) !== null): the matches in the
\* order found; exec leaves lastIndex at the end of the match.
RECURSIVE PriorityScan(_, _)
PriorityScan(t, lastIndex) ==
    LET m == PriorityExec(t, lastIndex)
    IN IF m = NoMatch THEN <<>>
       ELSE <<m>> \o PriorityScan(t, m.index + m.len)

\* tag.replace(/[.*+?^${}()|[\]\\]/g, '\\$&'): every character of the tag
\* becomes an atom of the pattern; an escaped character matches itself only.
RegexMeta == {".", "*", "+", "?", "^", "$", "{", "}", "(", ")", "|", "[", "]", "\\"}

EscapeTag(tag) ==
    [k \in 1..Len(tag) |->
        [kind |-> IF tag[k] \in RegexMeta THEN "escaped" ELSE "char",
         ch |-> tag[k]]]

\* Canonicalize of a regular expression with the i flag and without the u
\* flag: the character's upper case.  The small sigma and the final small
\* sigma have the same upper case, and each is its own lower case.
Canonicalize(c) ==
    CASE c = "p" -> "P" [] c = "r" -> "R"
      [] c \in {"sigma", "final sigma"} -> "SIGMA"
      [] OTHER -> c

\* One atom of the pattern against one character, under the i flag.
AtomMatches(atom, c) ==
    CASE atom.kind = "any" -> TRUE
      [] OTHER -> Canonicalize(atom.ch) = Canonicalize(c)

\* enabledTags.map(escape).join('|'): the alternatives in configuration order.
BuildPattern(enabledTags) ==
    [k \in 1..Len(enabledTags) |-> EscapeTag(enabledTags[k].tag)]

\* Whether the alternative alt matches at index j with \b on both sides.
AltMatches(t, j, alt) ==
    /\ WordBoundary(t, j)
    /\ j + Len(alt) <= Len(t)
    /\ \A k \in 1..Len(alt) : AtomMatches(alt[k], t[j + k])
    /\ WordBoundary(t, j + Len(alt))

\* regex.exec(text) of new RegExp(`\\b(${pattern})\\b`, 'gi'): the leftmost
\* index at which an alternative matches, and there the first alternative.
CustomExec(t, lastIndex, pattern) ==
    LET js == {j \in lastIndex..Len(t) :
                  \E a \in 1..Len(pattern) : AltMatches(t, j, pattern[a])}
    IN IF js = {} THEN NoMatch
       ELSE LET j == CHOOSE x \in js : \A y \in js : x <= y
                as == {a \in 1..Len(pattern) : AltMatches(t, j, pattern[a])}
                a == CHOOSE x \in as : \A y \in as : x <= y
            IN [index |-> j, len |-> Len(pattern[a])]

\* The while loop over regex.exec.  exec does not move lastIndex past an
\* empty match, so after an empty match the loop finds it again for ever.
RECURSIVE CustomScan(_, _, _)
CustomScan(t, lastIndex, pattern) ==
    LET m == CustomExec(t, lastIndex, pattern)
    IN IF m = NoMatch THEN [matches |-> <<>>, diverges |-> FALSE]
       ELSE IF m.len = 0 THEN [matches |-> <<m>>, diverges |-> TRUE]
       ELSE LET rest == CustomScan(t, m.index + m.len, pattern)
            IN [matches |-> <<m>> \o rest.matches, diverges |-> rest.diverges]

\* A sequence of sequences, joined.
RECURSIVE Flatten(_)
Flatten(ss) == IF Len(ss) = 0 THEN <<>> ELSE Head(ss) \o Flatten(Tail(ss))

(***************************************************************************)
(* Uids.  nanoid() returns a value that no mark the editor can still see   *)
(* carries: the model hands out the least number that no mark of the       *)
(* document or of the saved document carries and that the running pass has *)
(* not handed out before.  The default of the uid attribute is one         *)
(* nanoid() taken when the extension declares its attributes, shared by    *)
(* every mark created without an explicit uid.                             *)
(***************************************************************************)
null == <<>>

DefaultUid == <<"default">>

\* The uids of the marks of the document d.
UidsOf(d) ==
    {d[i].pm.uid : i \in {j \in 1..Len(d) : d[j].pm # NoMark}}
    \cup {d[i].ct.uid : i \in {j \in 1..Len(d) : d[j].ct # NoMark}}
    \cup {d[i].tt.uid : i \in {j \in 1..Len(d) : d[j].tt # NoMark}}

nanoid(used) ==
    <<"nanoid", CHOOSE n \in 1..(Cardinality(used) + 1) :
                    /\ <<"nanoid", n>> \notin used
                    /\ \A q \in 1..(n - 1) : <<"nanoid", q>> \in used>>

PriorityMarkOf(priority, text, uid, color) ==
    [type |-> "priorityMark", priority |-> priority, text |-> text,
     uid |-> uid, color |-> color]

CustomTagMarkOf(tag, text, uid, color) ==
    [type |-> "customTagMark", tag |-> tag, text |-> text,
     uid |-> uid, color |-> color]

\* The character indexes of the positions [start, end).
Covered(range) == range.start..(range.end - 1)

\* transaction.removeMark(from, to, priorityMark)
RemovePriorityMark(d, from, to) ==
    [i \in 1..Len(d) |->
        IF i \in from..(to - 1) THEN [d[i] EXCEPT !.pm = NoMark] ELSE d[i]]

\* transaction.addMark(from, to, mark) of a priorityMark: it replaces the
\* priorityMark the characters carried.
AddPriorityMark(d, from, to, mark) ==
    [i \in 1..Len(d) |->
        IF i \in from..(to - 1) THEN [d[i] EXCEPT !.pm = mark] ELSE d[i]]

\* transaction.addMark(from, to, mark) of a customTagMark.
AddCustomTagMark(d, from, to, mark) ==
    [i \in 1..Len(d) |->
        IF i \in from..(to - 1) THEN [d[i] EXCEPT !.ct = mark] ELSE d[i]]

(***************************************************************************)
(* PriorityMark: the scan of one text node, and the three passes of        *)
(* onUpdate.                                                               *)
(***************************************************************************)
\* One entry of priorityRanges: the match m found in the text t of the node
\* at position pos.
PriorityRange(pos, t, m) ==
    LET start == pos + m.index
        priority == toLowerCase(SubSeq(t, m.index + 1, m.index + m.len))
    IN [start |-> start, end |-> start + m.len, priority |-> priority,
        text |-> SubSeq(t, m.index + 1, m.index + m.len),
        color |-> calculatePriorityColor(priority)]

\* The matches of the text node that starts at s.
NodePriorityRanges(d, s) ==
    LET t == NodeText(d, s)
        ms == PriorityScan(t, 0)
    IN [k \in 1..Len(ms) |-> PriorityRange(s, t, ms[k])]

\* First pass of onUpdate: priorityRanges, node by node in document order.
PriorityRanges(d) ==
    LET nodes == descendants(d)
    IN Flatten([k \in 1..Len(nodes) |-> NodePriorityRanges(d, nodes[k])])

\* priorityRanges.find(range => range.start <= markStart && range.end >= markEnd)
MatchingRange(ranges, markStart, markEnd) ==
    LET ks == {k \in 1..Len(ranges) :
                  ranges[k].start <= markStart /\ ranges[k].end >= markEnd}
    IN IF ks = {} THEN NoMatch
       ELSE ranges[CHOOSE k \in ks : \A q \in ks : k <= q]

\* Second pass of onUpdate: whether the priorityMark of the text node that
\* starts at s is removed.
RemovesNode(d, ranges, s) ==
    LET mark == d[s].pm
        markStart == s
        markEnd == NodeEnd(d, s) + 1
        matchingRange == MatchingRange(ranges, markStart, markEnd)
    IN /\ mark # NoMark
       /\ \/ matchingRange = NoMatch
          \/ matchingRange.priority # mark.priority
          \/ matchingRange.color # mark.color

\* The removeMark calls of the second pass, in document order.
PriorityRemovals(d, ranges) ==
    LET nodes == descendants(d)
        one(s) == IF RemovesNode(d, ranges, s)
                  THEN <<[start |-> s, end |-> NodeEnd(d, s) + 1]>>
                  ELSE <<>>
    IN Flatten([k \in 1..Len(nodes) |-> one(nodes[k])])

\* Third pass: hasCorrectMark, read from editor.state.doc, the document as
\* it was before the pass.
HasCorrectMark(d, range) ==
    \E i \in Covered(range) :
        /\ d[i].pm # NoMark
        /\ d[i].pm.priority = range.priority
        /\ d[i].pm.color = range.color

\* A variant that never finds the uid of an existing mark.
NoExistingMarkUid(d, range) == null

\* Third pass: existingMarkUid, the uid of the last mark in the range whose
\* priority or color differs, null if there is none.
ExistingMarkUid(d, range) ==
    LET is == {i \in Covered(range) :
                  /\ d[i].pm # NoMark
                  /\ ~(d[i].pm.priority = range.priority /\ d[i].pm.color = range.color)}
    IN IF is = {} THEN null
       ELSE d[CHOOSE i \in is : \A j \in is : j <= i].pm.uid

\* Third pass: the addMark calls for ranges[k..]; n holds the uids in use.
RECURSIVE PriorityAdds(_, _, _, _)
PriorityAdds(d, ranges, k, n) ==
    IF k > Len(ranges) THEN [adds |-> <<>>, n |-> n]
    ELSE IF HasCorrectMark(d, ranges[k]) THEN PriorityAdds(d, ranges, k + 1, n)
    ELSE LET existingMarkUid == ExistingMarkUid(d, ranges[k])
             fresh == existingMarkUid = null
             mark == PriorityMarkOf(ranges[k].priority, ranges[k].priority,
                                    IF fresh THEN nanoid(n) ELSE existingMarkUid,
                                    ranges[k].color)
             rest == PriorityAdds(d, ranges, k + 1, n \cup {mark.uid})
         IN [adds |-> <<[start |-> ranges[k].start, end |-> ranges[k].end,
                         mark |-> mark]>> \o rest.adds,
             n |-> rest.n]

\* The steps of a transaction applied in order: removeMark, then addMark.
RECURSIVE ApplyRemovals(_, _)
ApplyRemovals(d, removals) ==
    IF Len(removals) = 0 THEN d
    ELSE ApplyRemovals(RemovePriorityMark(d, Head(removals).start, Head(removals).end),
                       Tail(removals))

RECURSIVE ApplyPriorityAdds(_, _)
ApplyPriorityAdds(d, adds) ==
    IF Len(adds) = 0 THEN d
    ELSE ApplyPriorityAdds(AddPriorityMark(d, Head(adds).start, Head(adds).end,
                                           Head(adds).mark),
                           Tail(adds))

\* PriorityMark.onUpdate on the document d, n the uids in use: the
\* transaction it builds and the document the transaction yields.
PriorityOnUpdate(d, n) ==
    LET priorityRanges == PriorityRanges(d)
        removals == PriorityRemovals(d, priorityRanges)
        third == PriorityAdds(d, priorityRanges, 1, n)
    IN [ranges |-> priorityRanges,
        removals |-> removals,
        adds |-> third.adds,
        changed |-> Len(removals) > 0 \/ Len(third.adds) > 0,
        doc |-> ApplyPriorityAdds(ApplyRemovals(d, removals), third.adds),
        n |-> third.n,
        diverges |-> FALSE]

\* PriorityMark.onCreate: a mark is added to every match whose characters
\* carry no priorityMark yet.
RECURSIVE PriorityCreateAdds(_, _, _, _)
PriorityCreateAdds(d, ranges, k, n) ==
    IF k > Len(ranges) THEN [adds |-> <<>>, n |-> n]
    ELSE LET hasOurMark == \E i \in Covered(ranges[k]) : d[i].pm # NoMark
         IN IF hasOurMark THEN PriorityCreateAdds(d, ranges, k + 1, n)
            ELSE LET mark == PriorityMarkOf(ranges[k].priority, ranges[k].text,
                                            nanoid(n), ranges[k].color)
                     rest == PriorityCreateAdds(d, ranges, k + 1, n \cup {mark.uid})
                 IN [adds |-> <<[start |-> ranges[k].start, end |-> ranges[k].end,
                                 mark |-> mark]>> \o rest.adds,
                     n |-> rest.n]

PriorityOnCreate(d, n) ==
    LET ranges == PriorityRanges(d)
        res == PriorityCreateAdds(d, ranges, 1, n)
    IN [ranges |-> ranges,
        removals |-> <<>>,
        adds |-> res.adds,
        changed |-> Len(res.adds) > 0,
        doc |-> ApplyPriorityAdds(d, res.adds),
        n |-> res.n,
        diverges |-> FALSE]

(***************************************************************************)
(* CustomTagMark: onCreate and onUpdate run the same scan.                 *)
(***************************************************************************)
\* this.options.customTags.filter(tag => tag.enabled)
\* A variant that keeps the disabled tags.
AllTags(tags) == tags

EnabledTags(tags) == SelectSeq(tags, LAMBDA t : t.enabled)

\* A variant that finds the last such tag.
FindLastCustomTag(enabledTags, tagText) ==
    LET ks == {k \in 1..Len(enabledTags) :
                  toLowerCase(enabledTags[k].tag) = toLowerCase(tagText)}
    IN IF ks = {} THEN 0 ELSE CHOOSE k \in ks : \A q \in ks : k >= q

\* enabledTags.find(t => t.tag.toLowerCase() === tagText.toLowerCase()):
\* the index of the first such tag, 0 if there is none.
FindCustomTag(enabledTags, tagText) ==
    LET ks == {k \in 1..Len(enabledTags) :
                  toLowerCase(enabledTags[k].tag) = toLowerCase(tagText)}
    IN IF ks = {} THEN 0 ELSE CHOOSE k \in ks : \A q \in ks : k <= q

\* A match placed by its index in the text of its node, as if every node
\* started where the document starts.
CustomTagRangeInNode(pos, t, m) ==
    [start |-> 1 + m.index, end |-> 1 + m.index + m.len,
     text |-> SubSeq(t, m.index + 1, m.index + m.len)]

\* One match of the scan of the node at position pos with text t.
CustomTagRange(pos, t, m) ==
    LET start == pos + m.index
    IN [start |-> start, end |-> start + m.len,
        text |-> SubSeq(t, m.index + 1, m.index + m.len)]

\* The matches of the while loop over the text node that starts at s.
NodeCustomTagScan(d, s, pattern) ==
    LET t == NodeText(d, s)
        scan == CustomScan(t, 0, pattern)
    IN [matches |-> [k \in 1..Len(scan.matches) |->
                        CustomTagRange(s, t, scan.matches[k])],
        diverges |-> scan.diverges]

\* doc.descendants: the nodes[k..] scanned in order; the traversal never
\* leaves a node whose loop does not end.
RECURSIVE CustomTagScanFrom(_, _, _, _)
CustomTagScanFrom(d, nodes, k, pattern) ==
    IF k > Len(nodes) THEN [matches |-> <<>>, diverges |-> FALSE]
    ELSE LET here == NodeCustomTagScan(d, nodes[k], pattern)
         IN IF here.diverges THEN here
            ELSE LET rest == CustomTagScanFrom(d, nodes, k + 1, pattern)
                 IN [matches |-> here.matches \o rest.matches,
                     diverges |-> rest.diverges]

\* The match set of one pass over the document d.
CustomTagRanges(d, enabledTags) ==
    CustomTagScanFrom(d, descendants(d), 1, BuildPattern(enabledTags))

\* The addMark calls for ranges[k..]; n holds the uids in use.
RECURSIVE CustomTagAdds(_, _, _, _, _)
CustomTagAdds(d, enabledTags, ranges, k, n) ==
    IF k > Len(ranges) THEN [adds |-> <<>>, n |-> n]
    ELSE LET found == FindCustomTag(enabledTags, ranges[k].text)
             hasOurMark == \E i \in Covered(ranges[k]) : d[i].ct # NoMark
         IN IF found = 0 \/ hasOurMark
            THEN CustomTagAdds(d, enabledTags, ranges, k + 1, n)
            ELSE LET customTag == enabledTags[found]
                     mark == CustomTagMarkOf(customTag.tag, ranges[k].text,
                                             nanoid(n), customTag.color)
                     rest == CustomTagAdds(d, enabledTags, ranges, k + 1, n \cup {mark.uid})
                 IN [adds |-> <<[start |-> ranges[k].start, end |-> ranges[k].end,
                                 mark |-> mark]>> \o rest.adds,
                     n |-> rest.n]

RECURSIVE ApplyCustomTagAdds(_, _)
ApplyCustomTagAdds(d, adds) ==
    IF Len(adds) = 0 THEN d
    ELSE ApplyCustomTagAdds(AddCustomTagMark(d, Head(adds).start, Head(adds).end,
                                             Head(adds).mark),
                            Tail(adds))

NothingToDo(d, n) ==
    [ranges |-> <<>>, removals |-> <<>>, adds |-> <<>>, changed |-> FALSE,
     doc |-> d, n |-> n, diverges |-> FALSE]

\* The transaction of the pass: the addMark calls res over the match set.
CustomTagDispatch(d, ranges, res) ==
    [ranges |-> ranges,
     removals |-> <<>>,
     adds |-> res.adds,
     changed |-> Len(res.adds) > 0,
     doc |-> ApplyCustomTagAdds(d, res.adds),
     n |-> res.n,
     diverges |-> FALSE]

\* The addMark calls over the match set scan, applied.
CustomTagAddOver(d, enabledTags, scan, n) ==
    IF scan.diverges
    THEN [NothingToDo(d, n) EXCEPT !.ranges = scan.matches, !.diverges = TRUE]
    ELSE CustomTagDispatch(d, scan.matches,
                           CustomTagAdds(d, enabledTags, scan.matches, 1, n))

\* The body shared by CustomTagMark.onCreate and CustomTagMark.onUpdate.
CustomTagScanOver(d, enabledTags, n) ==
    IF Len(enabledTags) = 0 THEN NothingToDo(d, n)
    ELSE CustomTagAddOver(d, enabledTags, CustomTagRanges(d, enabledTags), n)

CustomTagScanAndAdd(d, tags, n) == CustomTagScanOver(d, EnabledTags(tags), n)

CustomTagOnCreate(d, tags, n) == CustomTagScanAndAdd(d, tags, n)

CustomTagOnUpdate(d, tags, n) == CustomTagScanAndAdd(d, tags, n)

(***************************************************************************)
(* The settings store and the Settings page.                               *)
(***************************************************************************)
\* The colors the color picker is given in the model.
TagColors == {"#4ecdc4", "#666666"}

\* The tag texts typed into the Settings page in the model; the edit form
\* saves whatever it holds, the empty text too.
TagTexts == {<<"r">>, <<>>}

\* The values of Date.now() at which a tag is added.
AddTimes == {"t1"}

\* The store's tag list the model starts from: the default list after the
\* Settings page deleted two of its tags and shortened the third to "r".
InitialTags == <<[id |-> <<"review">>, tag |-> <<"r">>, color |-> "#4ecdc4", enabled |-> TRUE]>>

\* newTagName.trim(): the texts of the model hold no leading or trailing blank.
trim(text) == text

addCustomTag(tags, tag) == Append(tags, tag)

\* customTags.map(tag => tag.id === id ? { ...tag, ...updates } : tag)
updateCustomTag(tags, id, updates) ==
    [k \in 1..Len(tags) |->
        IF tags[k].id = id
        THEN [f \in DOMAIN tags[k] |->
                 IF f \in DOMAIN updates THEN updates[f] ELSE tags[k][f]]
        ELSE tags[k]]

deleteCustomTag(tags, id) == SelectSeq(tags, LAMBDA t : t.id # id)

(***************************************************************************)
(* The task list of the Editor component: traverseMarks, refreshPositions  *)
(* and refreshTasks.                                                       *)
(***************************************************************************)
\* A mark of the TimedTask extension: attrs.uid and attrs.time.
TimedTaskOf(uid, time) == [type |-> "timedTask", uid |-> uid, time |-> time]

\* node.marks.find(mark => mark.type.name === 'timedTask'): the first such
\* mark of a text node, NoMark for undefined.
FindTimedMark(marks) ==
    LET ks == {k \in 1..Len(marks) : marks[k].type = "timedTask"}
    IN IF ks = {} THEN NoMark
       ELSE marks[CHOOSE k \in ks : \A q \in ks : k <= q]

\* A variant that hands cb the first mark of a text node, of whatever name,
\* as a task without a time.
traverseAnyMarks(d) ==
    LET nodes == descendants(d)
        first(s) == CHOOSE q \in 1..3 :
                        /\ MarksOf(d[s])[q] # NoMark
                        /\ \A o \in 1..(q - 1) : MarksOf(d[s])[o] = NoMark
        one(s) == IF \E q \in 1..3 : MarksOf(d[s])[q] # NoMark
                  THEN <<[type |-> "timedTask",
                          uid |-> MarksOf(d[s])[first(s)].uid, time |-> null]>>
                  ELSE <<>>
    IN Flatten([k \in 1..Len(nodes) |-> one(nodes[k])])

\* traverseMarks: the timedTask marks handed to cb, one for every text node
\* that carries one, in document order.
traverseMarks(d) ==
    LET nodes == descendants(d)
        one(s) == IF FindTimedMark(MarksOf(d[s])) # NoMark
                  THEN <<FindTimedMark(MarksOf(d[s]))>>
                  ELSE <<>>
    IN Flatten([k \in 1..Len(nodes) |-> one(nodes[k])])

\* spanEl.parentElement.getBoundingClientRect(): the rectangle of the
\* paragraph that holds the span; in the model it grows with the text.
getBoundingClientRect(d) == <<"rect", Len(d)>>

\* The new map of refreshPositions over the marks of traverseMarks: a copy
\* of the old map with the rectangle of every mark that is rendered.
SetPositions(d, pos, marks) ==
    LET ids == {marks[k].uid : k \in 1..Len(marks)}
    IN [id \in (DOMAIN pos) \cup ids |->
           IF id \in ids THEN getBoundingClientRect(d) ELSE pos[id]]

\* refreshPositions, the onTransaction option of the editor.
refreshPositions(d, pos) == SetPositions(d, pos, traverseMarks(d))

\* positions.current.delete(id)
DeletePosition(pos, id) == [k \in (DOMAIN pos) \ {id} |-> pos[k]]

\* A variant that writes the uids only.
JSONstringifyUids(ts) == [k \in 1..Len(ts) |-> <<"uid", ts[k].uid>>]

\* JSON.stringify of a task list: the fields of every record in order.
JSONstringify(ts) ==
    [k \in 1..Len(ts) |-> <<"due", ts[k].due, "uid", ts[k].uid>>]

\* newTasks of refreshTasks: one record for every mark of traverseMarks.
NewTasks(marks) ==
    [k \in 1..Len(marks) |-> [due |-> marks[k].time, uid |-> marks[k].uid]]

\* A variant that takes an old record for completed when newTasks does not
\* hold the very record.
CompletedRecords(oldTasks, newTasks) ==
    LET gone == SelectSeq(oldTasks,
                    LAMBDA t : ~\E k \in 1..Len(newTasks) : newTasks[k] = t)
    IN [k \in 1..Len(gone) |-> gone[k].uid]

\* completedTasks: the uids of the old records that newTasks does not hold.
CompletedTasks(oldTasks, newTasks) ==
    LET gone == SelectSeq(oldTasks,
                    LAMBDA t : ~\E k \in 1..Len(newTasks) : newTasks[k].uid = t.uid)
    IN [k \in 1..Len(gone) |-> gone[k].uid]

\* A variant that animates the first of any number of completed tasks.
AnimateAnyCompleted(newTasks, pos, completedTasks, effectLayer) ==
    IF /\ Len(completedTasks) >= 1
       /\ effectLayer
       /\ completedTasks[1] \in DOMAIN pos
    THEN [tasks |-> newTasks,
          positions |-> DeletePosition(pos, completedTasks[1]),
          effects |-> <<[uid |-> completedTasks[1], rect |-> pos[completedTasks[1]]]>>,
          completed |-> completedTasks, notified |-> TRUE]
    ELSE [tasks |-> newTasks, positions |-> pos, effects |-> <<>>,
          completed |-> completedTasks, notified |-> TRUE]

\* The branch of one completed task: the effect at the cached rectangle and
\* the eviction, when the effects layer and the rectangle exist.
AnimateCompleted(newTasks, pos, completedTasks, effectLayer) ==
    IF /\ Len(completedTasks) = 1
       /\ effectLayer
       /\ completedTasks[1] \in DOMAIN pos
    THEN [tasks |-> newTasks,
          positions |-> DeletePosition(pos, completedTasks[1]),
          effects |-> <<[uid |-> completedTasks[1], rect |-> pos[completedTasks[1]]]>>,
          completed |-> completedTasks, notified |-> TRUE]
    ELSE [tasks |-> newTasks, positions |-> pos, effects |-> <<>>,
          completed |-> completedTasks, notified |-> TRUE]

\* The updater handed to setTasks.
UpdateTasks(oldTasks, newTasks, pos, effectLayer) ==
    IF JSONstringify(oldTasks) # JSONstringify(newTasks)
    THEN AnimateCompleted(newTasks, pos, CompletedTasks(oldTasks, newTasks),
                          effectLayer)
    ELSE [tasks |-> oldTasks, positions |-> pos, effects |-> <<>>,
          completed |-> <<>>, notified |-> FALSE]

\* refreshTasks(editor) on the document d.
refreshTasks(d, oldTasks, pos, effectLayer) ==
    UpdateTasks(oldTasks, NewTasks(traverseMarks(d)), pos, effectLayer)

\* document.getElementById("effects-layer"): the page holds the layer.
EffectsLayer == TRUE

(***************************************************************************)
(* The editor: listeners, dispatch, and the state machine.                 *)
(***************************************************************************)
Listener(hook, cause) == [hook |-> hook, cause |-> cause]

\* The listeners of the 'create' event, in registration order: the
\* extensions in the order of the extensions array, then the editor option.
CreateListeners ==
    <<Listener("PriorityMark.onCreate", "create"),
      Listener("CustomTagMark.onCreate", "create"),
      Listener("Editor.onCreate", "create")>>

\* The listeners of the 'update' event, caused by the transaction of cause.
UpdateListeners(cause) ==
    <<Listener("PriorityMark.onUpdate", cause),
      Listener("CustomTagMark.onUpdate", cause),
      Listener("Editor.onUpdate", cause)>>

NoTransaction(hook) ==
    [hook |-> hook, dispatched |-> FALSE, addToHistory |-> TRUE,
     preventUpdate |-> FALSE]

Quiescent == pending = <<>> /\ ~hung

\* The uids a mark the editor can see carries.
InUse ==
    UidsOf(doc) \cup UidsOf(storage) \cup (DOMAIN positions)
    \cup {tasks[k].uid : k \in 1..Len(tasks)}

Running(hook) == ~hung /\ Len(pending) > 0 /\ Head(pending).hook = hook

\* A variant that dispatches a transaction of its own for every step.
RunHookPerStep(hook, res, addToHistory, preventUpdate) ==
    IF res.diverges
    THEN /\ hung' = TRUE
         /\ last' = NoTransaction(hook)
         /\ UNCHANGED <<doc, customTags, storage, pending, tasks, positions, effects, completed, notified, content, outlineItems, sortedItems, shell>>
    ELSE /\ doc' = res.doc
         /\ positions' = IF res.changed THEN refreshPositions(res.doc, positions)
                         ELSE positions
         /\ last' = [hook |-> hook,
                     dispatched |-> res.changed,
                     addToHistory |-> (IF res.changed THEN addToHistory ELSE TRUE),
                     preventUpdate |-> (IF res.changed THEN preventUpdate ELSE FALSE)]
         /\ pending' = IF res.changed /\ ~preventUpdate
                       THEN Flatten([k \in 1..(Len(res.removals) + Len(res.adds)) |->
                                        UpdateListeners(hook)]) \o Tail(pending)
                       ELSE Tail(pending)
         /\ UNCHANGED <<customTags, storage, hung, tasks, effects, completed, notified, content, outlineItems, sortedItems, shell>>

\* this.editor.view.dispatch(transaction) at the end of a hook, when changed:
\* the editor takes the transaction's document and, unless the transaction
\* carries preventUpdate, emits 'update' to every listener before the
\* dispatch returns.  A hook whose loop never ends never gets here.
RunHook(hook, res, addToHistory, preventUpdate) ==
    IF res.diverges
    THEN /\ hung' = TRUE
         /\ last' = NoTransaction(hook)
         /\ UNCHANGED <<doc, customTags, storage, pending, tasks, positions, effects, completed, notified, content, outlineItems, sortedItems, shell>>
    ELSE /\ doc' = res.doc
         /\ positions' = IF res.changed THEN refreshPositions(res.doc, positions)
                         ELSE positions
         /\ last' = [hook |-> hook,
                     dispatched |-> res.changed,
                     addToHistory |-> (IF res.changed THEN addToHistory ELSE TRUE),
                     preventUpdate |-> (IF res.changed THEN preventUpdate ELSE FALSE)]
         /\ pending' = IF res.changed /\ ~preventUpdate
                       THEN UpdateListeners(hook) \o Tail(pending)
                       ELSE Tail(pending)
         /\ UNCHANGED <<customTags, storage, hung, tasks, effects, completed, notified, content, outlineItems, sortedItems, shell>>

PriorityMarkOnCreate ==
    /\ Running("PriorityMark.onCreate")
    /\ RunHook("PriorityMark.onCreate", PriorityOnCreate(doc, InUse), TRUE, FALSE)

PriorityMarkOnUpdate ==
    /\ Running("PriorityMark.onUpdate")
    /\ RunHook("PriorityMark.onUpdate", PriorityOnUpdate(doc, InUse), FALSE, TRUE)

CustomTagMarkOnCreate ==
    /\ Running("CustomTagMark.onCreate")
    /\ RunHook("CustomTagMark.onCreate",
               CustomTagOnCreate(doc, customTags, InUse), TRUE, FALSE)

CustomTagMarkOnUpdate ==
    /\ Running("CustomTagMark.onUpdate")
    /\ RunHook("CustomTagMark.onUpdate",
               CustomTagOnUpdate(doc, customTags, InUse), FALSE, TRUE)

\* setTasks(updater): the caller's list, the cache and the effects after
\* refreshTasks(editor).
SetTasks(res) ==
    /\ tasks' = res.tasks
    /\ positions' = res.positions
    /\ effects' = res.effects
    /\ completed' = res.completed
    /\ notified' = res.notified

\* The editor option onCreate: refreshTasks(editor).
EditorOnCreate ==
    /\ Running("Editor.onCreate")
    /\ SetTasks(refreshTasks(doc, tasks, positions, EffectsLayer))
    /\ pending' = Tail(pending)
    /\ last' = NoTransaction("Editor.onCreate")
    /\ UNCHANGED <<doc, customTags, storage, hung, content, outlineItems, sortedItems, shell>>

\* The editor option onUpdate: refreshTasks(editor); save(editor.getJSON()).
EditorOnUpdate ==
    /\ Running("Editor.onUpdate")
    /\ SetTasks(refreshTasks(doc, tasks, positions, EffectsLayer))
    /\ storage' = doc
    /\ pending' = Tail(pending)
    /\ last' = NoTransaction("Editor.onUpdate")
    /\ UNCHANGED <<doc, customTags, hung, content, outlineItems, sortedItems, shell>>

\* The host runs one event at a time: the next user event is taken when no
\* listener is left to run.
CanEdit == Quiescent

\* The marks a character typed after the first i characters takes: those of
\* the character before it, or of the first character at the very start.
InheritedMarks(d, i) ==
    IF Len(d) = 0 THEN <<NoMark, NoMark, NoMark>>
    ELSE IF i >= 1 THEN MarksOf(d[i]) ELSE MarksOf(d[1])

InsertAt(d, i, cells) == SubSeq(d, 1, i) \o cells \o SubSeq(d, i + 1, Len(d))

\* The user types the character c after the first i characters.
TypeChar(i, c) ==
    /\ CanEdit
    /\ Len(doc) < MaxLen
    /\ LET marks == InheritedMarks(doc, i)
       IN doc' = InsertAt(doc, i, <<Cell(c, marks[1], marks[2])>>)
    /\ positions' = refreshPositions(doc', positions)
    /\ pending' = UpdateListeners("user")
    /\ UNCHANGED <<customTags, storage, last, hung, tasks, effects, completed, notified, content, outlineItems, sortedItems, shell>>

\* The user deletes the character with index i.
DeleteChar(i) ==
    /\ CanEdit
    /\ i \in 1..Len(doc)
    /\ doc' = SubSeq(doc, 1, i - 1) \o SubSeq(doc, i + 1, Len(doc))
    /\ positions' = refreshPositions(doc', positions)
    /\ pending' = UpdateListeners("user")
    /\ UNCHANGED <<customTags, storage, last, hung, tasks, effects, completed, notified, content, outlineItems, sortedItems, shell>>

\* Mod-p: setPriority(0) with the cursor after the first i characters.
\* setMark stores the priorityMark, without a uid, for the text inserted
\* next, and insertContent inserts `${priority} ` with the stored marks.
setPriority(i, level) ==
    /\ CanEdit
    /\ Len(doc) + 3 <= MaxLen
    /\ LET priority == <<"p", level>>
           mark == PriorityMarkOf(priority, priority, DefaultUid,
                                  calculatePriorityColor(priority))
           ct == InheritedMarks(doc, i)[2]
       IN doc' = InsertAt(doc, i, <<Cell("p", mark, ct), Cell(level, mark, ct),
                                    Cell(" ", mark, ct)>>)
    /\ positions' = refreshPositions(doc', positions)
    /\ pending' = UpdateListeners("user")
    /\ UNCHANGED <<customTags, storage, last, hung, tasks, effects, completed, notified, content, outlineItems, sortedItems, shell>>

\* The user deletes the selection that holds the characters i..j.
DeleteRange(i, j) ==
    /\ CanEdit
    /\ 1 <= i /\ i <= j /\ j <= Len(doc)
    /\ doc' = SubSeq(doc, 1, i - 1) \o SubSeq(doc, j + 1, Len(doc))
    /\ positions' = refreshPositions(doc', positions)
    /\ pending' = UpdateListeners("user")
    /\ UNCHANGED <<customTags, storage, last, hung, tasks, effects, completed, notified, content, outlineItems, sortedItems, shell>>

\* The date phrases of the model and the times they are parsed to.
TaskPhrases == {<<"1">>, <<" ", "r">>}

Times == {10, 20}

\* The cells of a phrase under the marks pm and ct and the timedTask mark tt.
TimedCells(phrase, pm, ct, tt) ==
    [k \in 1..Len(phrase) |-> [Cell(phrase[k], pm, ct) EXCEPT !.tt = tt]]

\* A date phrase enters the document after the first i characters under a
\* timedTask mark of its own, with a uid no mark or task carries.
InsertTimedTask(i, phrase, time) ==
    /\ CanEdit
    /\ Len(doc) + Len(phrase) <= MaxLen
    /\ nanoid(InUse)[2] <= MaxUids
    /\ doc' = InsertAt(doc, i,
                 TimedCells(phrase, InheritedMarks(doc, i)[1],
                            InheritedMarks(doc, i)[2],
                            TimedTaskOf(nanoid(InUse), time)))
    /\ positions' = refreshPositions(doc', positions)
    /\ pending' = UpdateListeners("user")
    /\ UNCHANGED <<customTags, storage, last, hung, tasks, effects, completed, notified, content, outlineItems, sortedItems, shell>>

\* The phrase of the timedTask mark uid is read as another time: the mark
\* keeps its uid and span and takes the new time.
RetimeTask(uid, time) ==
    /\ CanEdit
    /\ \E k \in 1..Len(doc) : /\ doc[k].tt # NoMark
                              /\ doc[k].tt.uid = uid
                              /\ doc[k].tt.time # time
    /\ doc' = [k \in 1..Len(doc) |->
                 IF doc[k].tt # NoMark /\ doc[k].tt.uid = uid
                 THEN [doc[k] EXCEPT !.tt = TimedTaskOf(uid, time)]
                 ELSE doc[k]]
    /\ positions' = refreshPositions(doc', positions)
    /\ pending' = UpdateListeners("user")
    /\ UNCHANGED <<customTags, storage, last, hung, tasks, effects, completed, notified, content, outlineItems, sortedItems, shell>>

\* getAttributes of the paste rule for the matched text: the first enabled
\* tag of that text up to case, the text itself if there is none.
PasteAttributes(enabledTags, text) ==
    IF FindCustomTag(enabledTags, text) = 0
    THEN CustomTagMarkOf(text, text, DefaultUid, DEFAULT_COLOR)
    ELSE CustomTagMarkOf(enabledTags[FindCustomTag(enabledTags, text)].tag, text,
                         DefaultUid,
                         enabledTags[FindCustomTag(enabledTags, text)].color)

\* markPasteRule: every match of the pasted text gets the mark of its
\* attributes.
RECURSIVE MarkPasted(_, _, _, _)
MarkPasted(cells, enabledTags, matches, k) ==
    IF k > Len(matches) THEN cells
    ELSE MarkPasted(
             AddCustomTagMark(cells, matches[k].index + 1,
                              matches[k].index + matches[k].len + 1,
                              PasteAttributes(enabledTags,
                                  SubSeq([q \in 1..Len(cells) |-> cells[q].ch],
                                         matches[k].index + 1,
                                         matches[k].index + matches[k].len))),
             enabledTags, matches, k + 1)

\* addPasteRules applied to pasted cells: no rule without an enabled tag.
addPasteRules(cells, tags) ==
    IF Len(EnabledTags(tags)) = 0 THEN cells
    ELSE MarkPasted(cells, EnabledTags(tags),
                    CustomScan([q \in 1..Len(cells) |-> cells[q].ch], 0,
                               BuildPattern(EnabledTags(tags))).matches, 1)

\* parseHTML, getAttrs of span[data-custom-tag]: the mark of the span, NoMark
\* when the rule answers false.
parseHTML(tags, tagName, text) ==
    LET ks == {k \in 1..Len(tags) : tags[k].tag = tagName /\ tags[k].enabled}
    IN IF tagName = <<>> \/ ks = {} THEN NoMark
       ELSE CustomTagMarkOf(tagName, text, DefaultUid,
                            tags[CHOOSE k \in ks : \A q \in ks : k <= q].color)

\* The user pastes plain text after the first i characters: the text takes
\* the marks of its place, then the paste rules run on it.
PasteText(i, text) ==
    /\ CanEdit
    /\ Len(doc) + Len(text) <= MaxLen
    /\ doc' = InsertAt(doc, i,
                 addPasteRules([k \in 1..Len(text) |->
                                   Cell(text[k], InheritedMarks(doc, i)[1],
                                        InheritedMarks(doc, i)[2])],
                               customTags))
    /\ positions' = refreshPositions(doc', positions)
    /\ pending' = UpdateListeners("user")
    /\ UNCHANGED <<customTags, storage, last, hung, tasks, effects, completed, notified, content, outlineItems, sortedItems, shell>>

\* The user pastes the HTML <span data-custom-tag="tagName">text</span>.
PasteHTML(i, tagName, text) ==
    /\ CanEdit
    /\ Len(doc) + Len(text) <= MaxLen
    /\ doc' = InsertAt(doc, i,
                 addPasteRules([k \in 1..Len(text) |->
                                   Cell(text[k], NoMark,
                                        parseHTML(customTags, tagName, text))],
                               customTags))
    /\ positions' = refreshPositions(doc', positions)
    /\ pending' = UpdateListeners("user")
    /\ UNCHANGED <<customTags, storage, last, hung, tasks, effects, completed, notified, content, outlineItems, sortedItems, shell>>

\* The command setCustomTag(tagName) with the cursor after the first i
\* characters: false for a tag that is not enabled, else `${tagName} ` is
\* inserted as text.
setCustomTag(i, tagName) ==
    /\ CanEdit
    /\ Len(doc) + Len(tagName) + 1 <= MaxLen
    /\ \E k \in 1..Len(customTags) :
           customTags[k].tag = tagName /\ customTags[k].enabled
    /\ doc' = InsertAt(doc, i,
                 [k \in 1..(Len(tagName) + 1) |->
                     Cell((tagName \o <<" ">>)[k], InheritedMarks(doc, i)[1],
                          InheritedMarks(doc, i)[2])])
    /\ positions' = refreshPositions(doc', positions)
    /\ pending' = UpdateListeners("user")
    /\ UNCHANGED <<customTags, storage, last, hung, tasks, effects, completed, notified, content, outlineItems, sortedItems, shell>>

\* A store whose change leaves the editor as it is.
KeepEditor(tags) ==
    /\ customTags' = tags
    /\ UNCHANGED <<doc, storage, pending, last, hung, tasks, positions, effects, completed, notified, content, outlineItems, sortedItems, shell>>

\* A change of customTags re-creates the editor (the useEditor dependency):
\* the new editor loads the saved document and emits 'create'.
RecreateEditor(tags) ==
    /\ customTags' = tags
    /\ doc' = storage
    /\ pending' = CreateListeners
    /\ UNCHANGED <<storage, last, hung, tasks, positions, effects, completed, notified, content, outlineItems, sortedItems, shell>>

\* The checkbox of a tag: onUpdate(tag.id, { enabled: !tag.enabled }).
ToggleTag(k) ==
    /\ Quiescent
    /\ k \in 1..Len(customTags)
    /\ RecreateEditor(updateCustomTag(customTags, customTags[k].id,
                                      [enabled |-> ~customTags[k].enabled]))

\* CustomTagItem.handleSave: onUpdate(tag.id, { tag: tagText, color: tagColor }).
handleSave(k, tagText, tagColor) ==
    /\ Quiescent
    /\ k \in 1..Len(customTags)
    /\ RecreateEditor(updateCustomTag(customTags, customTags[k].id,
                                      [tag |-> tagText, color |-> tagColor]))

\* The Delete button of a tag.
DeleteTag(k) ==
    /\ Quiescent
    /\ k \in 1..Len(customTags)
    /\ RecreateEditor(deleteCustomTag(customTags, customTags[k].id))

\* Settings.handleAddTag at the time now, while the list holds less than cap
\* tags.
handleAddTagWithin(cap, newTagName, newTagColor, now) ==
    /\ Quiescent
    /\ Len(customTags) < cap
    /\ Len(trim(newTagName)) > 0
    /\ RecreateEditor(addCustomTag(customTags,
           [id |-> <<"custom", now>>, tag |-> trim(newTagName),
            color |-> newTagColor, enabled |-> TRUE]))

handleAddTag(newTagName, newTagColor, now) ==
    handleAddTagWithin(MaxTags, newTagName, newTagColor, now)

\* useState<JSONContent | null>(null): the outline holds no content yet.
NoContent == [type |-> "null"]

\* Nothing was scrolled, the background worker has just started, reload.txt
\* does not exist and no tab is open.
NoFile == [exists |-> FALSE, text |-> <<>>]
NoShell ==
    /\ scrollLog = <<>>
    /\ reloadTxt = NoFile
    /\ lastReloadTime = <<0>>
    /\ observed = <<>>
    /\ polls = <<>>
    /\ reloads = 0
    /\ tabs = <<>>
    /\ calls = <<>>

\* The caller starts with no task, the cache is empty, no effect was made;
\* the outline is that of no content.
NoTasks ==
    /\ NoShell
    /\ content = NoContent
    /\ outlineItems = <<>>
    /\ sortedItems = <<>>
    /\ tasks = <<>>
    /\ positions = <<>>
    /\ effects = <<>>
    /\ completed = <<>>
    /\ notified = FALSE

Init ==
    /\ doc = <<>>
    /\ customTags = InitialTags
    /\ storage = <<>>
    /\ pending = CreateListeners
    /\ last = NoTransaction("none")
    /\ hung = FALSE
    /\ NoTasks

\* The listeners of the editor.
Listeners ==
    \/ PriorityMarkOnCreate
    \/ PriorityMarkOnUpdate
    \/ CustomTagMarkOnCreate
    \/ CustomTagMarkOnUpdate
    \/ EditorOnCreate
    \/ EditorOnUpdate

\* The user's edits of the document.
Edits ==
    \/ \E i \in 0..Len(doc), c \in Chars : TypeChar(i, c)
    \/ \E i \in 1..Len(doc) : DeleteChar(i)
    \/ \E i \in 0..Len(doc) : setPriority(i, "0")

\* The editor with the tags of the store switched on and off.
Next ==
    \/ Listeners
    \/ Edits
    \/ \E k \in 1..Len(customTags) : ToggleTag(k)

Spec == Init /\ [][Next]_vars

\* The documents another tab saves in the model: plain text of up to two
\* characters, and a date phrase under a timedTask mark.
OtherTabDocs ==
    UNION {[1..n -> {Cell(c, NoMark, NoMark) : c \in Chars}] : n \in 0..2}
    \cup {TimedCells(<<"1">>, NoMark, NoMark, TimedTaskOf(<<"nanoid", 1>>, 10))}

\* The storage events of the model: the area, the key, and the new value,
\* null or the serialized document.
StorageEvents ==
    [storageArea : {"localStorage", "sessionStorage"},
     key : {"blocks", "settings"},
     newValue : {[null |-> TRUE, content |-> <<>>]}
                \cup {[null |-> FALSE, content |-> d] : d \in OtherTabDocs}]

\* updateClosure(event), the listener of the window's 'storage' event.
\* editor.commands.setContent(content) dispatches its transaction with
\* preventUpdate = !emitUpdate, and the default of emitUpdate is that of the
\* installed @tiptap/core (false in 2.x, true in 3.x), which the source does
\* not fix: both outcomes are taken.  With the update event its listeners
\* run inside setContent, before refreshTasks(editor).  The event tells of a
\* change another tab made to the store: the saved document is the new
\* value, the empty document when the key was removed.
StorageEvent(event, emitUpdate) ==
    /\ Quiescent
    /\ IF event.storageArea = "localStorage" /\ event.key = "blocks"
       THEN IF ~event.newValue.null
            THEN /\ doc' = event.newValue.content
                 /\ storage' = event.newValue.content
                 /\ positions' = refreshPositions(doc', positions)
                 /\ pending' = (IF emitUpdate THEN UpdateListeners("storage") ELSE <<>>)
                                \o <<Listener("updateClosure", "storage")>>
                 /\ UNCHANGED <<customTags, last, hung, tasks, effects, completed, notified, content, outlineItems, sortedItems, shell>>
            ELSE /\ storage' = <<>>
                 /\ UNCHANGED <<doc, customTags, pending, last, hung, tasks, positions,
                                effects, completed, notified, content, outlineItems, sortedItems, shell>>
       ELSE UNCHANGED vars

\* refreshTasks(editor) at the end of updateClosure.
UpdateClosureRefreshTasks ==
    /\ Running("updateClosure")
    /\ SetTasks(refreshTasks(doc, tasks, positions, EffectsLayer))
    /\ pending' = Tail(pending)
    /\ last' = NoTransaction("updateClosure")
    /\ UNCHANGED <<doc, customTags, storage, hung, content, outlineItems, sortedItems, shell>>

\* The editor of a tab whose store another tab changes, with the edit form
\* of the Settings page.
NextStorage ==
    \/ Listeners
    \/ UpdateClosureRefreshTasks
    \/ \E event \in StorageEvents, emitUpdate \in BOOLEAN : StorageEvent(event, emitUpdate)
    \/ \E k \in 1..Len(customTags), t \in TagTexts, c \in TagColors : handleSave(k, t, c)

SpecStorage == Init /\ [][NextStorage]_vars

\* The tag list of a new store.
DefaultTags ==
    <<[id |-> <<"important">>, tag |-> <<"i", "m", "p", "o", "r", "t", "a", "n", "t">>,
       color |-> "#ff6b6b", enabled |-> TRUE],
      [id |-> <<"review">>, tag |-> <<"r", "e", "v", "i", "e", "w">>,
       color |-> "#4ecdc4", enabled |-> TRUE],
      [id |-> <<"idea">>, tag |-> <<"i", "d", "e", "a">>,
       color |-> "#f7b731", enabled |-> TRUE]>>

\* The values of Date.now() at the adds of the Settings page: the clock of
\* the host in milliseconds, which no call is promised to find advanced.
StoreTimes == {"t1", "t2"}

\* The Settings page over a new store, the document empty.
InitStore ==
    /\ doc = <<>>
    /\ customTags = DefaultTags
    /\ storage = <<>>
    /\ pending = CreateListeners
    /\ last = NoTransaction("none")
    /\ hung = FALSE
    /\ NoTasks

NextStore ==
    \/ PriorityMarkOnCreate
    \/ CustomTagMarkOnCreate
    \/ EditorOnCreate
    \/ \E k \in 1..Len(customTags) : ToggleTag(k)
    \/ \E k \in 1..Len(customTags) : handleSave(k, <<"r">>, "#666666")
    \/ \E k \in 1..Len(customTags) : DeleteTag(k)
    \/ \E now \in StoreTimes : handleAddTagWithin(MaxStoreTags, <<"r">>, "#666666", now)

SpecStore == InitStore /\ [][NextStore]_vars

(***************************************************************************)
(* The outline of the document (ContentOutline).  A node of the JSON       *)
(* content is a record: its type, the level of its attrs (0 when it has    *)
(* none), its text (of a text node) and its content (empty when it has     *)
(* none).                                                                  *)
(***************************************************************************)
JSONNode(type, level, text, nodes) ==
    [type |-> type, level |-> level, text |-> text, content |-> nodes]

\* undefined, and a number, as the value of the optional field priority.
undefined == <<>>

\* A variant that takes the last match of the text.
extractLastPriority(text) ==
    LET matches == PriorityScan(text, 0)
        match == matches[Len(matches)]
    IN IF Len(matches) = 0 THEN undefined
       ELSE <<parseInt(SubSeq(text, match.index + 2, match.index + match.len))>>

\* text.match(/\bp(\d+)\b/i): the first match; parseInt of its digits.
extractPriority(text) ==
    LET match == PriorityExec(text, 0)
    IN IF match = NoMatch THEN undefined
       ELSE <<parseInt(SubSeq(text, match.index + 2, match.index + match.len))>>

RECURSIVE extractTextFromNode(_)
extractTextFromNode(node) ==
    IF node.type = "text" THEN node.text
    ELSE Flatten([k \in 1..Len(node.content) |-> extractTextFromNode(node.content[k])])

RECURSIVE calculateNodeSize(_)
calculateNodeSize(node) ==
    IF node.type = "text" THEN Len(node.text)
    ELSE LET sizes == [k \in 1..Len(node.content) |-> calculateNodeSize(node.content[k])]
             sum[k \in 0..Len(sizes)] == IF k = 0 THEN 0 ELSE sum[k - 1] + sizes[k]
         IN 1 + sum[Len(sizes)] + 1

\* text.trim(): whether anything but white space is left.
IsBlank(text) == \A k \in 1..Len(text) : text[k] = " "

\* text.substring(0, 50) + (text.length > 50 ? '...' : '')
Shorten(text) ==
    IF Len(text) > 50 THEN SubSeq(text, 1, 50) \o <<".", ".", ".">> ELSE text

\* An item of the outline as processNode creates it; parent is the index
\* of the item whose children it was pushed to, 0 for the root list.
OutlineItem(id, type, level, text, priority, position, parent) ==
    [id |-> id, type |-> type, level |-> level, text |-> text, priority |-> priority,
     position |-> position, parent |-> parent]

\* The state of buildOutlineTree before the first node: the items created
\* so far, sectionStack and currentSection as indexes of items (0 for
\* null), nodeCounter and docPos.
NoOutline ==
    [items |-> <<>>, sectionStack |-> <<>>, currentSection |-> 0,
     nodeCounter |-> 0, docPos |-> 0]

\* A variant that pops the sections of a greater level only.
PopDeeperSections(items, sectionStack, level) ==
    LET ks == {k \in 1..Len(sectionStack) : items[sectionStack[k]].level <= level}
    IN IF ks = {} THEN <<>>
       ELSE SubSeq(sectionStack, 1, CHOOSE k \in ks : \A q \in ks : q <= k)

\* while (sectionStack.length > 0 && top.level >= level) sectionStack.pop()
PopSections(items, sectionStack, level) ==
    LET ks == {k \in 1..Len(sectionStack) : items[sectionStack[k]].level < level}
    IN IF ks = {} THEN <<>>
       ELSE SubSeq(sectionStack, 1, CHOOSE k \in ks : \A q \in ks : q <= k)

\* processNode(node) of buildOutlineTree; no call passes skipContent.
RECURSIVE processNode(_, _), processContent(_, _, _)
processNode(node, st) ==
    LET counted == [st EXCEPT !.nodeCounter = @ + 1]
        text == extractTextFromNode(node)
        into == [counted EXCEPT !.docPos = @ + 1]
        inner == [processContent(node.content, 1, into) EXCEPT !.docPos = @ + 1]
        item == OutlineItem(<<"item", counted.nodeCounter>>,
                            CASE node.type = "taskItem" -> "task"
                              [] node.type = "listItem" -> "listItem"
                              [] OTHER -> "paragraph",
                            0, Shorten(text), extractPriority(text), st.docPos,
                            st.currentSection)
        withItem == IF IsBlank(text) THEN counted
                    ELSE [counted EXCEPT !.items = Append(@, item)]
    IN CASE node.type = "heading" ->
              LET level == IF node.level = 0 THEN 1 ELSE node.level
                  stack == PopSections(st.items, st.sectionStack, level)
                  newSection == OutlineItem(<<"heading", counted.nodeCounter>>, "heading",
                                            level, text, undefined, st.docPos,
                                            IF Len(stack) > 0 THEN stack[Len(stack)] ELSE 0)
                  opened == [counted EXCEPT
                                !.items = Append(@, newSection),
                                !.sectionStack = Append(stack, Len(st.items) + 1),
                                !.currentSection = Len(st.items) + 1]
              IN IF Len(node.content) = 0 THEN opened
                 ELSE [processContent(node.content, 1, [opened EXCEPT !.docPos = @ + 1])
                          EXCEPT !.docPos = @ + 1]
         [] node.type \in {"taskList", "bulletList"} ->
              IF Len(node.content) = 0 THEN counted ELSE inner
         [] node.type \in {"taskItem", "listItem"} -> withItem
         [] node.type = "paragraph" ->
              IF Len(node.content) = 0 THEN withItem
              ELSE [processContent(node.content, 1, [withItem EXCEPT !.docPos = @ + 1])
                       EXCEPT !.docPos = @ + 1]
         [] OTHER ->
              IF Len(node.content) = 0 THEN counted ELSE inner

\* nodes.forEach(child => { processNode(child); docPos += calculateNodeSize(child) })
\* from the k-th node on.
processContent(nodes, k, st) ==
    IF k > Len(nodes) THEN st
    ELSE processContent(nodes, k + 1,
             [processNode(nodes[k], st) EXCEPT !.docPos = @ + calculateNodeSize(nodes[k])])

\* The items pushed to the children of the item parent (to the root list
\* for 0), each with its own children.
RECURSIVE OutlineChildren(_, _)
OutlineChildren(items, parent) ==
    LET ks == SortedSeq({k \in 1..Len(items) : items[k].parent = parent})
    IN [j \in 1..Len(ks) |->
           [id |-> items[ks[j]].id, type |-> items[ks[j]].type,
            level |-> items[ks[j]].level, text |-> items[ks[j]].text,
            priority |-> items[ks[j]].priority, position |-> items[ks[j]].position,
            children |-> OutlineChildren(items, ks[j])]]

buildOutlineTree(json) ==
    OutlineChildren(processContent(json.content, 1, NoOutline).items, 0)

\* A comparator that puts the items without a priority first.
comparePriorityUndefinedFirst(a, b) ==
    IF a.priority = undefined /\ b.priority = undefined THEN 0
    ELSE IF a.priority = undefined THEN -1
    ELSE IF b.priority = undefined THEN 1
    ELSE a.priority[1] - b.priority[1]

\* The comparator of sortItemsWithinSections.
comparePriority(a, b) ==
    IF a.priority = undefined /\ b.priority = undefined THEN 0
    ELSE IF a.priority = undefined THEN 1
    ELSE IF b.priority = undefined THEN -1
    ELSE a.priority[1] - b.priority[1]

\* Array.prototype.sort with the comparator above: the sort is stable, an
\* item goes behind every item that does not compare greater.
RECURSIVE sort(_)
sort(items) ==
    IF Len(items) = 0 THEN <<>>
    ELSE LET sorted == sort(SubSeq(items, 1, Len(items) - 1))
             item == items[Len(items)]
             k == Cardinality({j \in 1..Len(sorted) : comparePriority(sorted[j], item) <= 0})
         IN SubSeq(sorted, 1, k) \o <<item>> \o SubSeq(sorted, k + 1, Len(sorted))

\* A variant that sorts the whole list it is given, headings among the
\* other items.
RECURSIVE sortItemsOfAllSections(_)
sortItemsOfAllSections(items) ==
    sort([k \in 1..Len(items) |->
             IF items[k].type = "heading"
             THEN [items[k] EXCEPT !.children = sortItemsOfAllSections(@)]
             ELSE items[k]])

RECURSIVE sortItemsWithinSections(_)
sortItemsWithinSections(items) ==
    [k \in 1..Len(items) |->
        IF items[k].type = "heading" /\ Len(items[k].children) > 0
        THEN LET recursiveSorted == sortItemsWithinSections(items[k].children)
                 headings == SelectSeq(recursiveSorted, LAMBDA child : child.type = "heading")
                 otherItems == SelectSeq(recursiveSorted, LAMBDA child : child.type # "heading")
             IN [items[k] EXCEPT !.children = sort(otherItems) \o headings]
        ELSE items[k]]

\* The characters of the texts of the paragraphs of the model.
TextChars == {"p", "P", "0", "1", "-", " "}

\* Every text of up to maxText characters, and two longer ones.
OutlineTexts(maxText) ==
    UNION {[1..n -> TextChars] : n \in 0..maxText}
    \cup {<<"p", "r", "i", "o", "r", "i", "t", "y", " ", "1">>,
          <<"r", " ", "P", "1", "2", " ", "p", "0">>}

\* Nodes as editor.getJSON() gives them: a node without text has no content.
Paragraph(text) ==
    JSONNode("paragraph", 0, <<>>,
             IF text = <<>> THEN <<>> ELSE <<JSONNode("text", 0, text, <<>>)>>)

Heading(level, text) ==
    JSONNode("heading", level, <<>>, Paragraph(text).content)

\* The blocks of the documents of the model: headings of three levels and
\* one without attrs, paragraphs, task lists and a bullet list, a block
\* quote, and a task item with a task list of its own.
OutlineBlocks ==
    {Heading(level, <<"r">>) : level \in 0..3}
    \cup {Paragraph(text) : text \in {<<"p", "1">>, <<"p", "0">>, <<"r">>, <<" ">>, <<>>}}
    \cup {JSONNode("taskList", 0, <<>>,
                   <<JSONNode("taskItem", 0, <<>>, <<Paragraph(<<"p", "0">>)>>)>>),
          JSONNode("taskList", 0, <<>>,
                   <<JSONNode("taskItem", 0, <<>>, <<Paragraph(<<"p", "1">>)>>),
                     JSONNode("taskItem", 0, <<>>, <<Paragraph(<<" ">>)>>)>>),
          JSONNode("bulletList", 0, <<>>,
                   <<JSONNode("listItem", 0, <<>>, <<Paragraph(<<"r">>)>>)>>),
          JSONNode("blockquote", 0, <<>>, <<Paragraph(<<"r">>)>>),
          JSONNode("taskList", 0, <<>>,
                   <<JSONNode("taskItem", 0, <<>>,
                        <<Paragraph(<<"r">>),
                          JSONNode("taskList", 0, <<>>,
                              <<JSONNode("taskItem", 0, <<>>,
                                         <<Paragraph(<<"p", "1">>)>>)>>)>>)>>)}

\* The contents the outline is given: one paragraph of every text of up to
\* maxText characters, and every document of up to maxBlocks blocks.
OutlineDocs(maxText, maxBlocks) ==
    {JSONNode("doc", 0, <<>>, <<Paragraph(text)>>) : text \in OutlineTexts(maxText)}
    \cup {JSONNode("doc", 0, <<>>, blocks) :
             blocks \in UNION {[1..n -> OutlineBlocks] : n \in 0..maxBlocks}}

\* Item lists written by hand, as the tests of sortItemsWithinSections
\* write them: an item, a section with up to maxChildren children (items
\* of priority 0, 1 or none, an empty section, a section of two items), a
\* second section, and an item.
HandmadeItem(id, type, level, priority, children) ==
    [id |-> id, type |-> type, level |-> level, text |-> <<"r">>, priority |-> priority,
     position |-> id[2], children |-> children]

HandmadeChildren(maxChildren) ==
    LET shapes == {<<"task", <<0>>, <<>>>>, <<"task", <<1>>, <<>>>>,
                   <<"paragraph", undefined, <<>>>>, <<"heading", undefined, <<>>>>,
                   <<"heading", undefined,
                     <<HandmadeItem(<<"item", 11>>, "task", 0, <<1>>, <<>>),
                       HandmadeItem(<<"item", 12>>, "task", 0, <<0>>, <<>>)>>>>}
    IN {[k \in 1..Len(f) |->
            HandmadeItem(<<IF f[k][1] = "heading" THEN "heading" ELSE "item", k + 2>>,
                         f[k][1], IF f[k][1] = "heading" THEN 2 ELSE 0, f[k][2], f[k][3])] :
           f \in UNION {[1..n -> shapes] : n \in 0..maxChildren}}

HandmadeOutlines(maxChildren) ==
    {<<HandmadeItem(<<"item", 1>>, "task", 0, <<1>>, <<>>),
       HandmadeItem(<<"heading", 2>>, "heading", 1, undefined, children),
       HandmadeItem(<<"heading", 20>>, "heading", 1, undefined,
                    <<HandmadeItem(<<"item", 21>>, "task", 0, undefined, <<>>),
                      HandmadeItem(<<"item", 22>>, "task", 0, <<1>>, <<>>)>>),
       HandmadeItem(<<"item", 23>>, "task", 0, <<0>>, <<>>)>> :
          children \in HandmadeChildren(maxChildren)}

\* The outline with a content to build the outline of, or with an item
\* list to sort.
InitOutline ==
    /\ doc = <<>>
    /\ customTags = InitialTags
    /\ storage = <<>>
    /\ pending = <<>>
    /\ last = NoTransaction("none")
    /\ hung = FALSE
    /\ tasks = <<>>
    /\ positions = <<>>
    /\ effects = <<>>
    /\ completed = <<>>
    /\ notified = FALSE
    /\ sortedItems = <<>>
    /\ NoShell
    /\ \/ content \in OutlineDocs(MaxText, MaxBlocks) /\ outlineItems = <<>>
       \/ content = NoContent /\ outlineItems \in HandmadeOutlines(MaxChildren)

\* useMemo(() => content ? buildOutlineTree(content) : [], [content])
OutlineMemo ==
    /\ last.hook = "none"
    /\ content # NoContent
    /\ outlineItems' = buildOutlineTree(content)
    /\ last' = NoTransaction("buildOutlineTree")
    /\ UNCHANGED <<doc, customTags, storage, pending, hung, tasks, positions, effects,
                   completed, notified, content, sortedItems, shell>>

\* const sorted = sortItemsWithinSections(outline)
SortOutline ==
    /\ \/ last.hook = "buildOutlineTree"
       \/ last.hook = "none" /\ content = NoContent
    /\ sortedItems' = sortItemsWithinSections(outlineItems)
    /\ last' = NoTransaction("sortItemsWithinSections")
    /\ UNCHANGED <<doc, customTags, storage, pending, hung, tasks, positions, effects,
                   completed, notified, content, outlineItems, shell>>

(***************************************************************************)
(* ContentOutline's scrollToPosition.  The page is what the call reads of  *)
(* it: window.pageYOffset, document.documentElement.scrollTop, the top of  *)
(* the editor element's bounding rectangle, and what the calls of          *)
(* view.coordsAtPos give, in the order they are made.  coordsAtPos throws  *)
(* a RangeError for a position beyond the document and may throw for any   *)
(* other.                                                                  *)
(***************************************************************************)
Thrown == [type |-> "throw", top |-> 0]
Coords(top) == [type |-> "coords", top |-> top]

PageOffsets == {0, 50}
ElementOffsets == {0, 200}
RectTops == {0, 30}
CoordTops == {-20, 0, 150}

\* doc.content.size of the editor's document.
ContentSize(json) == calculateNodeSize(json) - 2

CoordsAtPos(json, pos) ==
    IF pos < 0 \/ pos > ContentSize(json) THEN {Thrown}
    ELSE {Thrown} \cup {Coords(top) : top \in CoordTops}

Abs(n) == IF n < 0 THEN 0 - n ELSE n

\* A variant that keeps the first position it is given.
KeepFirst(pos, position, foundPos) ==
    IF foundPos = -1 THEN pos ELSE foundPos

\* if (Math.abs(pos - position) < Math.abs(foundPos - position) || foundPos === -1) foundPos = pos
Closest(pos, position, foundPos) ==
    IF Abs(pos - position) < Abs(foundPos - position) \/ foundPos = -1 THEN pos ELSE foundPos

\* doc.descendants(callback) over the nodes from the k-th on, the k-th
\* starting at pos: the callback is called for a node, then for its
\* content unless the callback returned false, then for the next node.
RECURSIVE docDescendants(_, _, _, _, _)
docDescendants(nodes, k, pos, position, st) ==
    IF k > Len(nodes) THEN st
    ELSE LET node == nodes[k]
             called == [foundPos |-> Closest(pos, position, st.foundPos),
                        nodeIndex |-> st.nodeIndex + 1]
             inner == IF called.nodeIndex > position * 2 \/ node.type = "text" THEN called
                      ELSE docDescendants(node.content, 1, pos + 1, position, called)
         IN docDescendants(nodes, k + 1, pos + calculateNodeSize(node), position, inner)

\* window.scrollTo({top, behavior: 'smooth'}), console.warn(...), and
\* editorElement.scrollIntoView({behavior: 'smooth', block: 'start'}).
ScrollTo(top) == [type |-> "scrollTo", top |-> top]
Warned == [type |-> "warn", top |-> 0]
ScrollIntoView == [type |-> "scrollIntoView", top |-> 0]

\* const targetScroll = coords.top + scrollTop - rect.top - 100, with
\* scrollTop = window.pageYOffset || document.documentElement.scrollTop
TargetScroll(coords, page) ==
    coords.top + (IF page.pageYOffset # 0 THEN page.pageYOffset ELSE page.scrollTop)
    - page.rectTop - 100

\* What scrollToPosition(position) does on the page: the events it makes,
\* the position it fell back to, and whether it threw.  page.lookups[2] is
\* read only when the first lookup threw.
scrollToPosition(json, position, page) ==
    LET foundPos == docDescendants(json.content, 1, 0, position,
                                [foundPos |-> -1, nodeIndex |-> 0]).foundPos
        call == [position |-> position, page |-> page, foundPos |-> -1, threw |-> FALSE,
                 events |-> <<>>]
    IN IF page.lookups[1] # Thrown
       THEN [call EXCEPT !.events = <<ScrollTo(TargetScroll(page.lookups[1], page))>>]
       ELSE IF foundPos < 0
       THEN [call EXCEPT !.events = <<Warned>>]
       ELSE IF page.lookups[2] # Thrown
       THEN [call EXCEPT !.foundPos = foundPos,
                         !.events = <<Warned, ScrollTo(TargetScroll(page.lookups[2], page))>>]
       ELSE [call EXCEPT !.foundPos = foundPos, !.events = <<Warned, ScrollIntoView>>]

\* The positions of the items of an outline, the children's included.
RECURSIVE ItemPositions(_)
ItemPositions(items) ==
    UNION {{items[k].position} \cup ItemPositions(items[k].children) : k \in 1..Len(items)}

\* onClick={() => scrollToPosition(item.position)} of an item of the
\* outline shown; the editor holds the content the outline was built of.
ClickOutlineItem ==
    /\ last.hook = "buildOutlineTree"
    /\ \E position \in ItemPositions(outlineItems), pageYOffset \in PageOffsets,
          scrollTop \in ElementOffsets, rectTop \in RectTops :
          \E first \in CoordsAtPos(content, position) :
             \E second \in IF first # Thrown THEN {Thrown}
                            ELSE CoordsAtPos(content,
                                     docDescendants(content.content, 1, 0, position,
                                         [foundPos |-> -1, nodeIndex |-> 0]).foundPos) :
                scrollLog' = <<scrollToPosition(content, position,
                                   [pageYOffset |-> pageYOffset, scrollTop |-> scrollTop,
                                    rectTop |-> rectTop, lookups |-> <<first, second>>])>>
    /\ last' = NoTransaction("scrollToPosition")
    /\ UNCHANGED <<doc, customTags, storage, pending, hung, tasks, positions, effects,
                   completed, notified, content, outlineItems, sortedItems>>
    /\ UNCHANGED <<reloadTxt, lastReloadTime, observed, polls, reloads, tabs, calls>>

NextOutline == OutlineMemo \/ SortOutline

\* The outline of a document of up to MaxScrollBlocks blocks, and the
\* clicks on its items.
InitScroll ==
    /\ NoShell
    /\ doc = <<>>
    /\ customTags = InitialTags
    /\ storage = <<>>
    /\ pending = <<>>
    /\ last = NoTransaction("none")
    /\ hung = FALSE
    /\ tasks = <<>>
    /\ positions = <<>>
    /\ effects = <<>>
    /\ completed = <<>>
    /\ notified = FALSE
    /\ content \in OutlineDocs(MaxScrollBlocks, MaxScrollBlocks)
    /\ outlineItems = <<>>
    /\ sortedItems = <<>>

NextScroll == OutlineMemo \/ ClickOutlineItem

SpecScroll == InitScroll /\ [][NextScroll]_vars

SpecOutline == InitOutline /\ [][NextOutline]_vars



(***************************************************************************)
(* The background worker of the extension: the poller of reload.txt and    *)
(* openTabSpace.  An await hands control back to the worker, so a poll and *)
(* a call of openTabSpace are steps of their own between their awaits.     *)
(***************************************************************************)
MaxPolls == 2    \* polls awaiting their fetch at a time
MaxReads == 3    \* timestamps observed between two starts of the worker
MaxCalls == 3    \* calls of openTabSpace awaiting their query at a time
MaxReloads == 2  \* reloads of the extension after which the watcher writes no more

\* NaN, and a number n as <<n>>.
NaN == <<>>

\* The texts reload.txt holds in the model: Date.now().toString() at several
\* times, and the empty text of a file that is being written.
ReloadTexts == {<<>>, <<"0">>, <<"1">>, <<"2">>, <<"1", "0">>}

\* parseInt(timestamp): the number its leading digits spell, NaN if it has
\* none.
parseIntOrNaN(text) ==
    LET ks == {k \in 0..Len(text) : \A q \in 1..k : text[q] \in Digits}
        n == CHOOSE k \in ks : \A q \in ks : q <= k
    IN IF n = 0 THEN NaN ELSE <<parseInt(SubSeq(text, 1, n))>>

\* a > b of two numbers: false when either is NaN.
GreaterThan(a, b) == a # NaN /\ b # NaN /\ a[1] > b[1]

Shell(txt, lrt, obs, ps, rl, tbs, cs) ==
    /\ reloadTxt' = txt
    /\ lastReloadTime' = lrt
    /\ observed' = obs
    /\ polls' = ps
    /\ reloads' = rl
    /\ tabs' = tbs
    /\ calls' = cs
    /\ UNCHANGED <<doc, customTags, storage, pending, last, hung, tasks, positions, effects,
                   completed, notified, content, outlineItems, sortedItems, scrollLog>>

RemoveAt(seq, k) == SubSeq(seq, 1, k - 1) \o SubSeq(seq, k + 1, Len(seq))

File(text) == [exists |-> TRUE, text |-> text]

\* scripts/reload-extension.js, updateReloadFile: the watcher writes the
\* file; a reader may find it empty while it is written.
WriteReloadTxt(text) ==
    /\ reloads < MaxReloads
    /\ reloadTxt # File(text)
    /\ Shell(File(text), lastReloadTime, observed, polls, reloads, tabs, calls)

\* setInterval(..., 2000) fires: fetch(chrome.runtime.getURL('reload.txt')).
PollFetch ==
    /\ Len(polls) < MaxPolls
    /\ Len(observed) + Len(polls) < MaxReads
    /\ Shell(reloadTxt, lastReloadTime, observed,
             Append(polls, [stage |-> "fetch", text |-> <<>>]), reloads, tabs, calls)

\* The fetch throws or its response is not ok: the poll ends in the catch
\* or after the if.  A file that does not exist cannot be fetched.
FetchFails(k) ==
    /\ polls[k].stage = "fetch"
    /\ Shell(reloadTxt, lastReloadTime, observed, RemoveAt(polls, k), reloads, tabs, calls)

\* response.ok: the poll awaits response.text(), the text of the file.
FetchSucceeds(k) ==
    /\ polls[k].stage = "fetch"
    /\ reloadTxt.exists
    /\ Shell(reloadTxt, lastReloadTime, observed,
             [polls EXCEPT ![k] = [stage |-> "text", text |-> reloadTxt.text]],
             reloads, tabs, calls)

\* A variant that reloads on the first timestamp it reads, too.
PollResumeUnguarded(k) ==
    /\ polls[k].stage = "text"
    /\ LET currentTime == parseIntOrNaN(polls[k].text)
       IN IF GreaterThan(currentTime, lastReloadTime)
          THEN Shell(reloadTxt, <<0>>, <<>>, <<>>, reloads + 1, tabs, <<>>)
          ELSE Shell(reloadTxt, currentTime, Append(observed, currentTime),
                     RemoveAt(polls, k), reloads, tabs, calls)

\* Lines 10-17 with the text in hand.  chrome.runtime.reload() starts the
\* worker anew: lastReloadTime is 0 again and what the old worker awaited
\* is gone.
PollResume(k) ==
    /\ polls[k].stage = "text"
    /\ LET currentTime == parseIntOrNaN(polls[k].text)
       IN IF GreaterThan(currentTime, lastReloadTime) /\ lastReloadTime # <<0>>
          THEN Shell(reloadTxt, <<0>>, <<>>, <<>>, reloads + 1, tabs, <<>>)
          ELSE Shell(reloadTxt, currentTime, Append(observed, currentTime),
                     RemoveAt(polls, k), reloads, tabs, calls)

\* chrome.runtime.getURL('index.html'), and the URL of another page.
ExtensionUrl == "chrome-extension://tabspace/index.html"
OtherUrl == "https://example.com/"

Tab(url, active) == [url |-> url, active |-> active]

\* async function openTabSpace() up to its first await: chrome.tabs.query({}).
openTabSpace ==
    /\ Len(calls) < MaxCalls
    /\ Shell(reloadTxt, lastReloadTime, observed, polls, reloads, tabs,
             Append(calls, [stage |-> "query", tabs |-> <<>>]))

\* chrome.commands.onCommand: the listener calls openTabSpace for the
\* command 'open-tabspace' and does nothing for any other.
onCommand(command) ==
    IF command = "open-tabspace" THEN openTabSpace ELSE UNCHANGED vars

\* chrome.action.onClicked: the toolbar button.
onClicked == openTabSpace

\* The browser answers chrome.tabs.query({}) with the tabs open then.
QueryAnswered(k) ==
    /\ calls[k].stage = "query"
    /\ Shell(reloadTxt, lastReloadTime, observed, polls, reloads, tabs,
             [calls EXCEPT ![k] = [stage |-> "tabs", tabs |-> tabs]])

\* tabs.find(tab => tab.url === extensionUrl): the index of the first such
\* tab, 0 for undefined.
FindExistingTab(queried) ==
    LET ks == {k \in 1..Len(queried) : queried[k].url = ExtensionUrl}
    IN IF ks = {} THEN 0 ELSE CHOOSE k \in ks : \A q \in ks : k <= q

\* chrome.tabs.update(id, { active: true }) and chrome.tabs.create({ url }):
\* the tab is the active one, the new tab is the last.
ActivateTab(tbs, id) == [k \in 1..Len(tbs) |-> Tab(tbs[k].url, k = id)]

CreateTab(tbs, url) == ActivateTab(Append(tbs, Tab(url, FALSE)), Len(tbs) + 1)

\* openTabSpace after chrome.tabs.query: the existing tab is focused, or a
\* tab is created.
openTabSpaceResume(k) ==
    /\ calls[k].stage = "tabs"
    /\ LET existingTab == FindExistingTab(calls[k].tabs)
       IN Shell(reloadTxt, lastReloadTime, observed, polls, reloads,
                IF existingTab # 0 THEN ActivateTab(tabs, existingTab)
                ELSE CreateTab(tabs, ExtensionUrl),
                RemoveAt(calls, k))

\* The user selects a tab of the browser.
SelectTab(k) ==
    /\ ~tabs[k].active
    /\ Shell(reloadTxt, lastReloadTime, observed, polls, reloads, ActivateTab(tabs, k), calls)

\* The worker just started, in a browser with or without another tab.
InitBackground ==
    /\ doc = <<>>
    /\ customTags = InitialTags
    /\ storage = <<>>
    /\ pending = <<>>
    /\ last = NoTransaction("none")
    /\ hung = FALSE
    /\ tasks = <<>>
    /\ positions = <<>>
    /\ effects = <<>>
    /\ completed = <<>>
    /\ notified = FALSE
    /\ content = NoContent
    /\ outlineItems = <<>>
    /\ sortedItems = <<>>
    /\ scrollLog = <<>>
    /\ reloadTxt = NoFile
    /\ lastReloadTime = <<0>>
    /\ observed = <<>>
    /\ polls = <<>>
    /\ reloads = 0
    /\ tabs \in {<<>>, <<Tab(OtherUrl, TRUE)>>}
    /\ calls = <<>>

NextPoller ==
    \/ \E text \in ReloadTexts : WriteReloadTxt(text)
    \/ PollFetch
    \/ \E k \in 1..Len(polls) : FetchFails(k)
    \/ \E k \in 1..Len(polls) : FetchSucceeds(k)
    \/ \E k \in 1..Len(polls) : PollResume(k)

NextTabs ==
    \/ \E command \in {"open-tabspace", "toggle-theme"} : onCommand(command)
    \/ onClicked
    \/ \E k \in 1..Len(calls) : QueryAnswered(k)
    \/ \E k \in 1..Len(calls) : openTabSpaceResume(k)
    \/ \E k \in 1..Len(tabs) : SelectTab(k)

SpecPoller == InitBackground /\ [][NextPoller]_vars

SpecTabs == InitBackground /\ [][NextTabs]_vars

\* The editor with every action of the Settings page.
NextSettings ==
    \/ Listeners
    \/ Edits
    \/ \E k \in 1..Len(customTags) : ToggleTag(k)
    \/ \E k \in 1..Len(customTags), t \in TagTexts, c \in TagColors : handleSave(k, t, c)
    \/ \E k \in 1..Len(customTags) : DeleteTag(k)
    \/ \E t \in TagTexts, c \in TagColors, now \in AddTimes : handleAddTag(t, c, now)

SpecSettings == Init /\ [][NextSettings]_vars

\* The uids of the timedTask marks of the document d.
TimedUids(d) == {d[k].tt.uid : k \in {j \in 1..Len(d) : d[j].tt # NoMark}}

\* The editor with dated tasks: date phrases come and go, are read as other
\* times, and the user deletes selections, sets priorities and types blanks.
NextTasks ==
    \/ Listeners
    \/ \E i \in 0..Len(doc), phrase \in TaskPhrases, time \in Times :
           InsertTimedTask(i, phrase, time)
    \/ \E uid \in TimedUids(doc), time \in Times : RetimeTask(uid, time)
    \/ \E i \in 1..Len(doc), j \in 1..Len(doc) : DeleteRange(i, j)
    \/ \E i \in 0..Len(doc) : setPriority(i, "0")
    \/ \E i \in 0..Len(doc) : TypeChar(i, " ")

SpecTasks == Init /\ [][NextTasks]_vars

\* The user drags the selection that holds the characters i..j and drops it
\* after the first k of the characters that are left; the characters keep
\* their marks.
MoveRange(i, j, k) ==
    /\ CanEdit
    /\ 1 <= i /\ i <= j /\ j <= Len(doc)
    /\ k <= Len(doc) - (j - i + 1)
    /\ doc' = InsertAt(SubSeq(doc, 1, i - 1) \o SubSeq(doc, j + 1, Len(doc)), k,
                       SubSeq(doc, i, j))
    /\ doc' # doc
    /\ positions' = refreshPositions(doc', positions)
    /\ pending' = UpdateListeners("user")
    /\ UNCHANGED <<customTags, storage, last, hung, tasks, effects, completed, notified, content, outlineItems, sortedItems, shell>>

\* The saved documents with dated tasks: blanks and the phrases of up to
\* two tasks, in the order the tasks were made; the characters of a task
\* carry one mark.
TaskDocs ==
    {d \in UNION {[1..n -> {Cell(" ", NoMark, NoMark)}
                            \cup {[Cell("1", NoMark, NoMark) EXCEPT
                                      !.tt = TimedTaskOf(<<"nanoid", u>>, time)] :
                                        u \in 1..2, time \in Times}] : n \in 0..MaxLen} :
        \A a \in 1..Len(d) : \A b \in 1..Len(d) :
            (d[a].tt # NoMark /\ d[b].tt # NoMark) =>
                /\ d[a].tt.uid = d[b].tt.uid => d[a].tt = d[b].tt
                /\ a < b => d[a].tt.uid[2] <= d[b].tt.uid[2]}

\* The editor opened on a saved document with dated tasks; the tasks are
\* read as other times and dragged to other places.
InitRetime ==
    /\ doc \in TaskDocs
    /\ customTags = InitialTags
    /\ storage = doc
    /\ pending = CreateListeners
    /\ last = NoTransaction("none")
    /\ hung = FALSE
    /\ NoTasks

NextRetime ==
    \/ Listeners
    \/ \E uid \in TimedUids(doc), time \in Times : RetimeTask(uid, time)
    \/ \E i \in 1..Len(doc), j \in 1..Len(doc), k \in 0..Len(doc) : MoveRange(i, j, k)

SpecRetime == InitRetime /\ [][NextRetime]_vars

\* The editor opened on a saved document of plain text under a tag
\* configuration of the store: useEditor builds the document from load() and
\* the create listeners run, then the update listeners their untagged
\* transactions cause.
MatcherTagTexts == {<<"r">>, <<"r", "r">>, <<"r", " ", "r">>}

MatcherTags ==
    {[id |-> <<"custom">> \o t, tag |-> t, color |-> "#4ecdc4", enabled |-> e] :
        t \in MatcherTagTexts, e \in BOOLEAN}

MatcherConfigs ==
    UNION {[1..n -> MatcherTags] : n \in 0..MaxPatterns}

PlainDocs ==
    UNION {[1..n -> {Cell(c, NoMark, NoMark) : c \in Chars}] : n \in 0..MaxLen}

\* The saved document of the text "p0 urgent", without a mark.
ScenarioText == <<"p", "0", " ", "u", "r", "g", "e", "n", "t">>

ScenarioDoc == [k \in 1..Len(ScenarioText) |-> Cell(ScenarioText[k], NoMark, NoMark)]

InitMatcher ==
    /\ doc \in PlainDocs \cup {ScenarioDoc}
    /\ customTags \in MatcherConfigs
    /\ storage = doc
    /\ pending = CreateListeners
    /\ last = NoTransaction("none")
    /\ hung = FALSE
    /\ NoTasks

SpecMatcher == InitMatcher /\ [][Listeners]_vars

\* The editor opened on a saved document of plain text under a
\* configuration whose tags hold a regex metacharacter or a letter with two
\* lower-case forms.
EscapeChars == {"r", "R", ".", "sigma", "final sigma"}

EscapeTagTexts == {<<"r">>, <<"r", ".", "r">>, <<"r", "sigma", "r">>}

EscapeTags ==
    {[id |-> <<"custom">> \o t, tag |-> t, color |-> "#4ecdc4", enabled |-> e] :
        t \in EscapeTagTexts, e \in BOOLEAN}

InitEscape ==
    /\ doc \in UNION {[1..n -> {Cell(c, NoMark, NoMark) : c \in EscapeChars}] : n \in 0..MaxLen}
    /\ customTags \in UNION {[1..n -> EscapeTags] : n \in 0..MaxPatterns}
    /\ storage = doc
    /\ pending = CreateListeners
    /\ last = NoTransaction("none")
    /\ hung = FALSE
    /\ NoTasks

SpecEscape == InitEscape /\ [][Listeners]_vars

\* The editor opened on a saved document of plain text spelled with the
\* characters of priority tokens of every level and of both cases.
PayloadChars == {"p", "P", "0", "1", "2", "3", "4", "5", "9", " "}

InitPayload ==
    /\ doc \in UNION {[1..n -> {Cell(c, NoMark, NoMark) : c \in PayloadChars}] :
                         n \in 0..MaxLen}
    /\ customTags = InitialTags
    /\ storage = doc
    /\ pending = CreateListeners
    /\ last = NoTransaction("none")
    /\ hung = FALSE
    /\ NoTasks

SpecPayload == InitPayload /\ [][Listeners]_vars

\* The editor opened on a saved document of plain text under a
\* configuration whose tags share their text up to case, with the paths
\* that bring tagged text into the document: paste, pasted HTML and the
\* command setCustomTag.
SharedTagTexts == {<<"r">>, <<"R">>, <<"1">>}

SharedTags ==
    [tag : SharedTagTexts, color : TagColors, enabled : BOOLEAN]

SharedConfigs ==
    UNION {{[k \in 1..n |-> [id |-> <<"custom", ToString(k)>>, tag |-> f[k].tag,
                             color |-> f[k].color, enabled |-> f[k].enabled]] :
               f \in [1..n -> SharedTags]} : n \in 0..MaxPatterns}

InitTags ==
    /\ doc \in PlainDocs
    /\ customTags \in SharedConfigs
    /\ storage = doc
    /\ pending = CreateListeners
    /\ last = NoTransaction("none")
    /\ hung = FALSE
    /\ NoTasks

NextTags ==
    \/ Listeners
    \/ \E i \in 0..Len(doc), text \in SharedTagTexts : PasteText(i, text)
    \/ \E i \in 0..Len(doc), tagName \in SharedTagTexts, text \in SharedTagTexts :
           PasteHTML(i, tagName, text)
    \/ \E i \in 0..Len(doc), tagName \in SharedTagTexts : setCustomTag(i, tagName)

SpecTags == InitTags /\ [][NextTags]_vars

(***************************************************************************)
(* Properties.                                                             *)
(***************************************************************************)
JustRan(hook) == last.hook = hook

\* Whether the character i lies in one of the ranges.
InSomeRange(ranges, i) == \E k \in 1..Len(ranges) : i \in Covered(ranges[k])

\* The saved document is the document whenever no listener is left to run,
\* so during the listeners of a user edit it is the document before the edit.
SavedWhenQuiescent == Quiescent => storage = doc

\* C1: idempotence.  A second reconciliation pass run right after a pass,
\* with no change of the document or of the tags in between, does nothing:
\* it adds no mark, removes no mark and dispatches no transaction.
C1_SecondPassDoesNothing ==
    /\ JustRan("PriorityMark.onUpdate") => ~PriorityOnUpdate(doc, InUse).changed
    /\ JustRan("CustomTagMark.onUpdate") /\ ~hung
           => ~CustomTagOnUpdate(doc, customTags, InUse).changed

\* The part of C1 that the code keeps: the pass of CustomTagMark.
CustomTagSecondPassDoesNothing ==
    JustRan("CustomTagMark.onUpdate") /\ ~hung
        => ~CustomTagOnUpdate(doc, customTags, InUse).changed

\* The target matches of the priority pattern in the concatenated text of the
\* paragraph, as ranges of document positions.
TextOf(d) == [i \in 1..Len(d) |-> d[i].ch]

TargetPriorityRanges(d) ==
    LET t == TextOf(d)
        scan == PriorityScan(t, 0)
    IN [k \in 1..Len(scan) |-> PriorityRange(1, t, scan[k])]

\* C2: after a pass of PriorityMark.onUpdate no priorityMark is left on text
\* that is no match of the priority pattern in the current text.
C2_NoMarkOutsideMatches ==
    JustRan("PriorityMark.onUpdate") =>
        \A i \in 1..Len(doc) :
            doc[i].pm # NoMark => InSomeRange(TargetPriorityRanges(doc), i)

\* The part of C2 that the code keeps: after a pass no priorityMark is left
\* outside the ranges the pass computes, one text node at a time.
NoMarkOutsideNodeMatches ==
    JustRan("PriorityMark.onUpdate") =>
        \A i \in 1..Len(doc) :
            doc[i].pm # NoMark => InSomeRange(PriorityRanges(doc), i)

\* C3: after a pass every match carries, over exactly its span, a mark with
\* the payload of the match.
C3_EveryMatchMarked ==
    /\ JustRan("PriorityMark.onUpdate") =>
           LET ranges == PriorityRanges(doc)
           IN \A k \in 1..Len(ranges) : \A i \in Covered(ranges[k]) :
                  /\ doc[i].pm # NoMark
                  /\ doc[i].pm.priority = ranges[k].priority
                  /\ doc[i].pm.color = ranges[k].color
    /\ JustRan("CustomTagMark.onUpdate") /\ ~hung =>
           LET enabledTags == EnabledTags(customTags)
               ranges == IF Len(enabledTags) = 0 THEN <<>>
                         ELSE CustomTagRanges(doc, enabledTags).matches
           IN \A k \in 1..Len(ranges) : \A i \in Covered(ranges[k]) :
                  LET found == FindCustomTag(enabledTags, ranges[k].text)
                  IN found # 0 =>
                        /\ doc[i].ct # NoMark
                        /\ doc[i].ct.tag = enabledTags[found].tag
                        /\ doc[i].ct.color = enabledTags[found].color

\* The number of places the user's edit moved the span of the range r of
\* the saved document, in a set: empty if the edit changed the span.  The
\* edit lies after the span (it moved by 0) or before it (it moved by the
\* change of length); the span still matches the same priority.
SpanShifts(r) ==
    LET delta == Len(doc) - Len(storage)
        after == \A i \in 1..(r.end - 1) : i <= Len(doc) /\ doc[i] = storage[i]
        before == \A i \in r.start..Len(storage) :
                      i + delta \in 1..Len(doc) /\ doc[i + delta] = storage[i]
        stillMatches(by) ==
            \E k \in 1..Len(PriorityRanges(doc)) :
                /\ PriorityRanges(doc)[k].start = r.start + by
                /\ PriorityRanges(doc)[k].end = r.end + by
                /\ PriorityRanges(doc)[k].priority = r.priority
    IN IF storage = doc THEN {}
       ELSE {by \in {0, delta} :
                /\ (by = 0 /\ after) \/ (by = delta /\ before)
                /\ stillMatches(by)}

\* Whether the pass op (a removeMark or an addMark) touches the positions
\* [start, end).
Touches(op, start, end) == op.start < end /\ start < op.end

\* C4: identity preservation.  A mark over a span that matches p1, an edit
\* of text outside the span, then a pass: the mark keeps its uid and the
\* pass issues no removeMark and no addMark for the span.
C4_IdentityPreserved ==
    [][Running("PriorityMark.onUpdate") /\ Head(pending).cause = "user" =>
          LET saved == PriorityRanges(storage)
              pass == PriorityOnUpdate(doc, InUse)
          IN \A k \in 1..Len(saved) :
                 LET r == saved[k]
                 IN (/\ r.priority = <<"p", "1">>
                     /\ \A i \in Covered(r) :
                            /\ storage[i].pm # NoMark
                            /\ storage[i].pm.priority = r.priority)
                    => \A by \in SpanShifts(r) :
                           /\ \A i \in Covered(r) :
                                  /\ doc'[i + by].pm # NoMark
                                  /\ doc'[i + by].pm.uid = storage[i].pm.uid
                           /\ \A q \in 1..Len(pass.removals) :
                                  ~Touches(pass.removals[q], r.start + by, r.end + by)
                           /\ \A q \in 1..Len(pass.adds) :
                                  ~Touches(pass.adds[q], r.start + by, r.end + by)]_vars

\* The enabled tag definition a customTagMark belongs to: the index of the
\* first enabled tag with the mark's tag text, 0 if there is none.
TagOfMark(mark) == FindCustomTag(EnabledTags(customTags), mark.tag)

\* C5: payload change triggers replace.  After the color of a tag changed in
\* the store, the next pass (onCreate of the re-created editor) replaces
\* every mark of the tag by a mark with the new color and another uid.
C5_ColorChangeReplacesMark ==
    [][Running("CustomTagMark.onCreate") =>
          \A i \in 1..Len(doc) :
              (/\ doc[i].ct # NoMark
               /\ TagOfMark(doc[i].ct) # 0
               /\ EnabledTags(customTags)[TagOfMark(doc[i].ct)].color # doc[i].ct.color)
              => /\ doc'[i].ct # NoMark
                 /\ doc'[i].ct.color = EnabledTags(customTags)[TagOfMark(doc[i].ct)].color
                 /\ doc'[i].ct.uid # doc[i].ct.uid]_vars

\* C6: after a tag was disabled or deleted, the next pass (onCreate of the
\* re-created editor) removes every mark of that tag, also when no tag is
\* left enabled.
C6_DisabledTagMarksRemoved ==
    [][Running("CustomTagMark.onCreate") =>
          \A i \in 1..Len(doc) :
              (doc[i].ct # NoMark /\ TagOfMark(doc[i].ct) = 0)
              => doc'[i].ct = NoMark]_vars

\* C7: every transaction a lifecycle hook dispatches, onCreate and onUpdate
\* alike, carries addToHistory = false and preventUpdate = true.
C7_HookTransactionsTagged ==
    last.dispatched => last.addToHistory = FALSE /\ last.preventUpdate = TRUE

ReconciliationHooks ==
    {"PriorityMark.onCreate", "PriorityMark.onUpdate",
     "CustomTagMark.onCreate", "CustomTagMark.onUpdate"}

\* C8: no feedback loop.  No onUpdate pass is ever left to run because of a
\* transaction that a reconciliation pass dispatched.
C8_NoPassCausedByPass ==
    \A k \in 1..Len(pending) :
        pending[k].hook \in {"PriorityMark.onUpdate", "CustomTagMark.onUpdate"}
            => pending[k].cause \notin ReconciliationHooks

\* The part of C8 that the code keeps: a pass of onUpdate causes no pass.
UpdatePassCausesNoPass ==
    \A k \in 1..Len(pending) :
        pending[k].cause \notin {"PriorityMark.onUpdate", "CustomTagMark.onUpdate"}

\* C9: every reconciliation pass terminates: no hook enters a loop that it
\* never leaves.
C9_EveryPassTerminates == ~hung

\* The ranges lie one after the other in document order.
OrderedDisjoint(ranges) ==
    \A k \in 1..Len(ranges) : \A q \in (k + 1)..Len(ranges) :
        ranges[k].end <= ranges[q].start

Refreshed ==
    /\ Quiescent
    /\ JustRan("Editor.onCreate") \/ JustRan("Editor.onUpdate")

\* The records a task list holds for the uid.
RecordsOf(ts, uid) == {k \in 1..Len(ts) : ts[k].uid = uid}

\* The list ts holds one record {uid, due} for every timedTask mark of the
\* document d, and no other record.
IsProjection(ts, d) ==
    /\ \A uid \in TimedUids(d) : Cardinality(RecordsOf(ts, uid)) = 1
    /\ \A k \in 1..Len(ts) :
           \E c \in 1..Len(d) : d[c].tt = TimedTaskOf(ts[k].uid, ts[k].due)

\* C11: after every transaction that changes the document, once the update
\* listener of the editor has run, the task list is exactly the projection
\* of the timedTask marks of the document: one record {uid, due} for every
\* live mark.
C11_TaskListIsProjection ==
    (Refreshed /\ JustRan("Editor.onUpdate")) => IsProjection(tasks, doc)

\* The uids of the list ts that no timedTask mark of the document d carries.
GoneUids(ts, d) == {ts[k].uid : k \in 1..Len(ts)} \ TimedUids(d)

\* The listener of the editor that calls refreshTasks is about to run.
Refreshing == Running("Editor.onCreate") \/ Running("Editor.onUpdate")

\* What refreshTasks does for the one completed uid u: one effect at the
\* rectangle the cache holds for u, and the entry of u leaves the cache.
AnimatedOnce(u) ==
    /\ u \in DOMAIN positions
    /\ effects' = <<[uid |-> u, rect |-> positions[u]]>>
    /\ u \notin DOMAIN positions'

\* C12: when the comparison of refreshTasks finds exactly one uid in the
\* previous list that the new list does not hold, the completion effect is
\* emitted exactly once at the last recorded position of that task and the
\* entry of the uid is removed from the position cache.
C12_SingleCompletionAnimated ==
    [][(Refreshing /\ Cardinality(GoneUids(tasks, doc)) = 1)
          => \A u \in GoneUids(tasks, doc) : AnimatedOnce(u)]_vars

\* The same for a completed uid the previous list holds one record of.
SingleRecordCompletionAnimated ==
    [][(Refreshing /\ Cardinality(GoneUids(tasks, doc)) = 1)
          => \A u \in GoneUids(tasks, doc) :
                Cardinality(RecordsOf(tasks, u)) = 1 => AnimatedOnce(u)]_vars

\* The uids completedTasks of the last call of refreshTasks holds.
CompletedUids == {completed[k] : k \in 1..Len(completed)}

\* C13: when two or more timed tasks are removed by a single edit, no
\* completion effect is emitted, and the records of all the removed tasks
\* are absent from the task list after the edit.
C13_MultiCompletionNotAnimated ==
    [][(Refreshing /\ Cardinality(GoneUids(tasks, doc)) >= 2)
          => /\ effects' = <<>>
             /\ \A u \in GoneUids(tasks, doc) : RecordsOf(tasks', u) = {}]_vars

\* refreshTasks has just compared the lists after an edit that removed two
\* timed tasks: both are completed, neither is in the list.
C13_Witness ==
    /\ Refreshed
    /\ Cardinality(CompletedUids) >= 2
    /\ \A u \in CompletedUids : RecordsOf(tasks, u) = {}

\* C14: after refreshTasks has run, every uid of the position cache belongs
\* to a timed task that is live in the document, so the cache holds no more
\* entries than there are live timed tasks.
C14_CacheBoundedByLiveTasks ==
    Refreshed
        => /\ DOMAIN positions \subseteq TimedUids(doc)
           /\ Cardinality(DOMAIN positions) <= Cardinality(TimedUids(doc))

\* C15: when the list refreshTasks derives equals the previous list in order
\* and in every field, the previous list is kept (setTasks is handed the old
\* list, no update is notified), no completion is reported and no effect is
\* emitted; when the two differ, the derived list becomes the list the next
\* comparison starts from.
C15_EqualListKept ==
    [][Refreshing =>
          IF NewTasks(traverseMarks(doc)) = tasks
          THEN /\ tasks' = tasks
               /\ ~notified'
               /\ completed' = <<>>
               /\ effects' = <<>>
          ELSE /\ tasks' = NewTasks(traverseMarks(doc))
               /\ notified']_vars

\* refreshTasks has compared a list of tasks with an equal one and kept it.
C15_Witness ==
    /\ Refreshed
    /\ ~notified
    /\ tasks # <<>>
    /\ tasks = NewTasks(traverseMarks(doc))

\* refreshTasks has replaced a list by one that differs in a due time only.
RetimedListReplaced ==
    /\ Refreshed
    /\ notified
    /\ tasks # <<>>
    /\ completed = <<>>
    /\ \E k \in 1..Len(tasks) : tasks[k].due = 20

\* The marks of every kind the document d carries.
MarksIn(d) ==
    UNION {{MarksOf(d[k])[q] : q \in 1..3} : k \in 1..Len(d)} \ {NoMark}

\* The characters of the document d with their timedTask marks, which no
\* pass touches.
TimedTextOf(d) == [k \in 1..Len(d) |-> <<d[k].ch, d[k].tt>>]

\* The document d is the document before with the text "p0 " deleted at i.
DeletedAt(before, d, i) ==
    /\ i + 2 <= Len(before)
    /\ TextOf(SubSeq(before, i, i + 2)) = <<"p", "0", " ">>
    /\ TimedTextOf(d) =
           TimedTextOf(SubSeq(before, 1, i - 1) \o SubSeq(before, i + 3, Len(before)))

\* The listeners of the edit that deleted the text "p0 " have run up to the
\* one of the editor: storage still holds the document before the edit.
DeletedP0 ==
    /\ Running("Editor.onUpdate")
    /\ \E i \in 1..Len(storage) : DeletedAt(storage, doc, i)

\* C16: deleting the text "p0 " from the paragraph removes exactly one mark
\* and removes exactly one record of the task list.
C16_DeletingP0RemovesMarkAndTask ==
    [][DeletedP0 => /\ MarksIn(doc) \subseteq MarksIn(storage)
                    /\ Cardinality(MarksIn(storage) \ MarksIn(doc)) = 1
                    /\ Len(tasks') = Len(tasks) - 1]_vars


\* The editor was opened on the saved text "p0 urgent".
OnScenario == TextOf(doc) = ScenarioText

\* The matcher returns one match for the text: the span of "p0", the label
\* "p0" and the red color.
OneRedMatch(d) ==
    /\ Len(PriorityRanges(d)) = 1
    /\ Covered(PriorityRanges(d)[1]) = {1, 2}
    /\ PriorityRanges(d)[1].priority = <<"p", "0">>
    /\ PriorityRanges(d)[1].color = P0_COLOR

\* The document carries one mark, a red priorityMark "p0" over d[1..2].
OneRedMark(d) ==
    /\ Cardinality(MarksIn(d)) = 1
    /\ \A k \in 1..Len(d) : (d[k].pm # NoMark) = (k \in {1, 2})
    /\ d[1].pm.priority = <<"p", "0">>
    /\ d[1].pm.color = P0_COLOR

\* What the claim says of the matcher and the pass on "p0 urgent"; the
\* pass was handed an unmarked document and emitted one Add.
ScenarioMatchedAndMarked ==
    /\ OnScenario => OneRedMatch(doc)
    /\ (OnScenario /\ JustRan("none")) => Len(PriorityOnCreate(doc, InUse).adds) = 1
    /\ (OnScenario /\ ~JustRan("none")) => OneRedMark(doc)

\* C17 (as stated): on the text "p0 urgent" without marks the matcher
\* returns exactly one match, covering "p0" with the label "p0" and the red
\* color, the pass emits exactly one Add, and the task list derived from the
\* document holds exactly one record.
C17_ScenarioYieldsOneTask ==
    /\ ScenarioMatchedAndMarked
    /\ (OnScenario /\ Refreshed) => Len(tasks) = 1

\* C17 (amended): on the text "p0 urgent" without marks the matcher returns
\* exactly one match, covering "p0" with the label "p0" and the red color,
\* the pass emits exactly one Add, and the task list derived from the
\* document holds no record.
C17_ScenarioYieldsNoTask ==
    /\ ScenarioMatchedAndMarked
    /\ (OnScenario /\ Refreshed) => Len(tasks) = 0

\* The passes and refreshTasks have run on "p0 urgent".
C17_Witness ==
    /\ OnScenario
    /\ Refreshed
    /\ OneRedMark(doc)

\* The characters of the range that carry a priorityMark whose priority or
\* color is not that of the range.
StaleIn(d, range) ==
    {i \in Covered(range) :
        /\ d[i].pm # NoMark
        /\ d[i].pm.priority # range.priority \/ d[i].pm.color # range.color}

\* The match range carries marks of a stale payload only.
IsStale(d, range) == StaleIn(d, range) # {} /\ ~HasCorrectMark(d, range)

\* After the pass the range carries a mark of its own payload.
Remarked(d, range) ==
    \A i \in Covered(range) :
        /\ d[i].pm # NoMark
        /\ d[i].pm.priority = range.priority
        /\ d[i].pm.color = range.color

\* The uids of the stale marks of the range.
StaleUids(d, range) == {d[i].pm.uid : i \in StaleIn(d, range)}

\* C18 (as stated): when the matched text at a marked position changes its
\* priority level, the pass removes the old mark and adds a new mark with a
\* fresh uid, different from the uid of the removed mark.
C18_StalePayloadGetsFreshUid ==
    [][Running("PriorityMark.onUpdate") =>
          \A k \in 1..Len(PriorityRanges(doc)) :
              IsStale(doc, PriorityRanges(doc)[k]) =>
                  /\ Remarked(doc', PriorityRanges(doc)[k])
                  /\ \A i \in Covered(PriorityRanges(doc)[k]) :
                         doc'[i].pm.uid \notin StaleUids(doc, PriorityRanges(doc)[k])]_vars

\* C18 (amended): when the matched text at a marked position changes its
\* priority level, the pass removes the old mark and adds a new mark that
\* carries the uid of the removed mark.
C18_StalePayloadKeepsUid ==
    [][Running("PriorityMark.onUpdate") =>
          \A k \in 1..Len(PriorityRanges(doc)) :
              IsStale(doc, PriorityRanges(doc)[k]) =>
                  /\ Remarked(doc', PriorityRanges(doc)[k])
                  /\ \A i \in Covered(PriorityRanges(doc)[k]) :
                         doc'[i].pm.uid \in StaleUids(doc, PriorityRanges(doc)[k])]_vars

\* The pass has replaced the mark of the first character, which the saved
\* document holds with another priority, by a mark of the same uid.
C18_Witness ==
    /\ JustRan("PriorityMark.onUpdate")
    /\ last.dispatched
    /\ Len(storage) >= 1 /\ Len(doc) >= 1
    /\ storage[1].pm # NoMark /\ doc[1].pm # NoMark
    /\ storage[1].pm.priority # doc[1].pm.priority
    /\ storage[1].pm.uid = doc[1].pm.uid

\* The customTagMarks of the document d.
TagMarksIn(d) == {m \in MarksIn(d) : m.type = "customTagMark"}

\* The tag text is that of an enabled definition of the configuration.
IsEnabledTag(tags, tag) ==
    \E k \in 1..Len(tags) : tags[k].enabled /\ tags[k].tag = tag

FirstEnabled(tags, text) ==
    LET ks == {k \in 1..Len(tags) :
                  tags[k].enabled /\ toLowerCase(tags[k].tag) = toLowerCase(text)}
    IN tags[CHOOSE k \in ks : \A q \in ks : k <= q]

\* C20: when several definitions have the same text up to case, the mark a
\* pass creates for a matching token takes its tag and color from the first
\* enabled one in configuration order, never from a disabled one before it.
C20_FirstEnabledDefinitionWins ==
    [][(Running("CustomTagMark.onCreate") \/ Running("CustomTagMark.onUpdate"))
          => \A m \in TagMarksIn(doc') \ TagMarksIn(doc) :
                /\ IsEnabledTag(customTags, m.tag)
                /\ m.tag = FirstEnabled(customTags, m.text).tag
                /\ m.color = FirstEnabled(customTags, m.text).color]_vars

\* A pass has marked a token under a configuration whose first definition
\* is disabled and whose second, of the same text up to case and of another
\* color, is enabled.
C20_Witness ==
    /\ JustRan("CustomTagMark.onCreate") \/ JustRan("CustomTagMark.onUpdate")
    /\ last.dispatched
    /\ Len(customTags) >= 2
    /\ ~customTags[1].enabled /\ customTags[2].enabled
    /\ toLowerCase(customTags[1].tag) = toLowerCase(customTags[2].tag)
    /\ customTags[1].color # customTags[2].color
    /\ \E m \in TagMarksIn(doc) :
           m.tag = customTags[2].tag /\ m.color = customTags[2].color

\* A pass has marked a token under two enabled definitions of the same text
\* up to case and of different colors, with the color of the first.
TwoEnabledFirstWins ==
    /\ JustRan("CustomTagMark.onCreate") \/ JustRan("CustomTagMark.onUpdate")
    /\ last.dispatched
    /\ Len(customTags) >= 2
    /\ customTags[1].enabled /\ customTags[2].enabled
    /\ toLowerCase(customTags[1].tag) = toLowerCase(customTags[2].tag)
    /\ customTags[1].color # customTags[2].color
    /\ \E m \in TagMarksIn(doc) : m.color = customTags[1].color

(***************************************************************************)
(* The match set of a pass and the text of the block.                      *)
(***************************************************************************)
\* The matches of the tag pattern in the concatenated text of the document.
TargetCustomTagRanges(d, enabledTags) ==
    LET scan == CustomScan(TextOf(d), 0, BuildPattern(enabledTags))
    IN [k \in 1..Len(scan.matches) |-> CustomTagRange(1, TextOf(d), scan.matches[k])]

\* C21: the match set a pass computes equals the scan of the concatenated
\* text of the block: a token is a match exactly when it is delimited by
\* word boundaries in that text, also when it or its neighbours lie in
\* different text nodes.
C21_MatchesOverConcatenatedText ==
    /\ PriorityRanges(doc) = TargetPriorityRanges(doc)
    /\ (~hung /\ \A k \in 1..Len(customTags) : customTags[k].tag # <<>>)
          => CustomTagRanges(doc, EnabledTags(customTags)).matches
                = TargetCustomTagRanges(doc, EnabledTags(customTags))

(***************************************************************************)
(* The payload of a priority token.                                        *)
(***************************************************************************)
\* The number a string of decimal digits denotes.
RECURSIVE DecimalValue(_)
DecimalValue(ds) ==
    IF Len(ds) = 0 THEN 0
    ELSE 10 * DecimalValue(SubSeq(ds, 1, Len(ds) - 1))
         + Cardinality({c \in Digits : \E k \in 1..9 :
                           /\ <<"1", "2", "3", "4", "5", "6", "7", "8", "9">>[k] = ds[Len(ds)]
                           /\ c \in {<<"0", "1", "2", "3", "4", "5", "6", "7", "8">>[q] : q \in 1..k}})

\* The color of a level: red, orange, yellow-orange, yellow, green, and the
\* lighter green from 5 on.
ColorOfLevel(level) ==
    CASE level = 0 -> "#ff000055"
      [] level = 1 -> "#ff660055"
      [] level = 2 -> "#ffaa0055"
      [] level = 3 -> "#ffff0055"
      [] level = 4 -> "#00aa0055"
      [] OTHER -> "#00cc0055"

\* Texts that are not p followed by digits.
MalformedLabels ==
    {<<>>, <<"p">>, <<"1">>, <<"p", "p", "0">>, <<"p", " ", "1">>, <<"p", "1", "r">>,
     <<"r", "1">>, <<" ", "p", "1">>}

\* The payload of a match of the text: the label is the matched text in
\* lower case, the color that of its level.
PayloadOf(t, range) ==
    /\ range.priority = toLowerCase(SubSeq(t, range.start, range.end - 1))
    /\ range.priority[1] = "p"
    /\ range.color = ColorOfLevel(DecimalValue(Tail(range.priority)))

CreatePending == \E k \in 1..Len(pending) : pending[k].cause = "create"

\* Every match of the scan of the whole document d with the tag list tags
\* carries a customTagMark in the document e.
MatchesMarkedIn(d, tags, e) ==
    LET ranges == CustomTagRanges(d, EnabledTags(tags)).matches
    IN \A k \in 1..Len(ranges) :
           \E i \in Covered(ranges[k]) : e[i].ct # NoMark

\* C23: every change of the tag list (addCustomTag, updateCustomTag,
\* deleteCustomTag) re-creates the editor on the saved document with the
\* passes of 'create' to run; until they have run no user edit is taken and
\* the tag list stays the new one; the pass of the custom tags scans the
\* whole document with that list.
C23_MutationTriggersFullPass ==
    [][/\ (customTags' # customTags) =>
             /\ pending' = CreateListeners
             /\ doc' = storage
             /\ ~hung'
       /\ CreatePending =>
             /\ customTags' = customTags
             /\ hung' \/ pending' = Tail(pending)
                       \/ pending' = UpdateListeners(Head(pending).hook) \o Tail(pending)
             /\ last'.hook = Head(pending).hook
       /\ (Running("CustomTagMark.onCreate") /\ ~hung') =>
             MatchesMarkedIn(doc, customTags, doc')]_vars

\* The pass of 'create' has added a mark with the color the tag was given
\* in Settings.
C23_Witness ==
    /\ JustRan("CustomTagMark.onCreate")
    /\ last.dispatched
    /\ Len(customTags) > 0
    /\ customTags[1].color = "#666666"
    /\ \E i \in 1..Len(doc) : doc[i].ct # NoMark /\ doc[i].ct.color = "#666666"

(***************************************************************************)
(* The storage event of another tab.                                       *)
(***************************************************************************)
\* The listeners the step leaves to run are those of a storage event.
StorageApplied ==
    /\ Quiescent
    /\ pending' # <<>>
    /\ pending'[Len(pending')].cause = "storage"

\* The listeners left to run hold a reconciliation pass of each of the two
\* extensions.
PassesPending(pend) ==
    /\ \E k \in 1..Len(pend) :
           pend[k].hook \in {"PriorityMark.onCreate", "PriorityMark.onUpdate"}
    /\ \E k \in 1..Len(pend) :
           pend[k].hook \in {"CustomTagMark.onCreate", "CustomTagMark.onUpdate"}

\* C24: a storage event for the document key with a non-null value replaces
\* the whole document by that value, a reconciliation pass of each extension
\* runs on it and comes to its end, and the task list is derived from the
\* content after that; an event for another key, another area or with a
\* null value leaves the document as it is.
C24_StorageEventReplacesAndReconciles ==
    [][/\ StorageApplied =>
             /\ doc' = storage'
             /\ PassesPending(pending')
             /\ pending'[Len(pending')].hook = "updateClosure"
       /\ (pending # <<>> /\ Head(pending).cause = "storage") => ~hung'
       /\ (Running("updateClosure") /\ ~hung) =>
             /\ doc' = doc
             /\ tasks' = NewTasks(traverseMarks(doc))
       /\ (Quiescent /\ pending' # CreateListeners /\ doc' # doc) => StorageApplied]_vars

\* What holds of updateClosure: the document is replaced, the task list is
\* derived from the new content at its end, other events change nothing of
\* the document.
StorageEventReplacesAndRefreshes ==
    [][/\ StorageApplied =>
             /\ doc' = storage'
             /\ pending'[Len(pending')].hook = "updateClosure"
       /\ (Running("updateClosure") /\ ~hung) =>
             /\ doc' = doc
             /\ tasks' = NewTasks(traverseMarks(doc))
       /\ (Quiescent /\ pending' # CreateListeners /\ doc' # doc) => StorageApplied]_vars

(***************************************************************************)
(* The ids of the tag definitions.                                         *)
(***************************************************************************)
UniqueIds(tags) ==
    \A j, k \in 1..Len(tags) : tags[j].id = tags[k].id => j = k

\* C25: no two tag definitions of the store share an id, whatever adds,
\* updates and deletes led from the default list to it.
C25_PatternIdsUnique == UniqueIds(customTags)

\* Updates and deletes keep the ids unique, and so does an add whose id no
\* tag of the list carries.
OnlyAddRepeatsId ==
    [][(UniqueIds(customTags) /\ ~UniqueIds(customTags')) =>
           /\ Len(customTags') = Len(customTags) + 1
           /\ \E k \in 1..Len(customTags) :
                  customTags[k].id = customTags'[Len(customTags')].id]_vars

(***************************************************************************)
(* The outline.                                                            *)
(***************************************************************************)
\* The characters i..j of the text t are a token p<digits> between two word
\* boundaries.
IsPriorityToken(t, i, j) ==
    /\ 1 <= i /\ i < j /\ j <= Len(t)
    /\ t[i] \in {"p", "P"}
    /\ \A k \in (i + 1)..j : t[k] \in Digits
    /\ i = 1 \/ ~IsWord(t[i - 1])
    /\ j = Len(t) \/ ~IsWord(t[j + 1])

\* The level the text t gives: the number of the first token, undefined
\* when it has none.
LevelOfFirstToken(t) ==
    LET tokens == {ij \in (1..Len(t)) \X (1..Len(t)) : IsPriorityToken(t, ij[1], ij[2])}
    IN IF tokens = {} THEN undefined
       ELSE LET first == CHOOSE ij \in tokens : \A other \in tokens : ij[1] <= other[1]
            IN <<DecimalValue(SubSeq(t, first[1] + 1, first[2]))>>

\* The texts the claim names as texts without a token.
TextsWithoutToken ==
    {<<>>, <<"p">>, <<"p", "-", "1">>, <<"p", "p", "0">>,
     <<"p", "r", "i", "o", "r", "i", "t", "y", " ", "1">>}

\* C26: extractPriority(text) is the integer level of the first token
\* p<digits> of the text, in either case and between word boundaries, and
\* undefined when the text holds no such token; the item of a paragraph
\* carries that value.
C26_ExtractPriorityOfFirstToken ==
    /\ content # NoContent =>
           extractPriority(extractTextFromNode(content))
              = LevelOfFirstToken(extractTextFromNode(content))
    /\ (JustRan("buildOutlineTree") /\ Len(content.content) = 1
           /\ content.content[1].type = "paragraph" /\ Len(outlineItems) = 1) =>
           outlineItems[1].priority = LevelOfFirstToken(extractTextFromNode(content))
    /\ \A text \in TextsWithoutToken : extractPriority(text) = undefined

\* The outline of the paragraph "r P12 p0" holds one item, of priority 12.
C26_Witness ==
    /\ JustRan("buildOutlineTree")
    /\ extractTextFromNode(content) = <<"r", " ", "P", "1", "2", " ", "p", "0">>
    /\ Len(outlineItems) = 1
    /\ outlineItems[1].priority = <<12>>

\* The items of an outline at every depth, each with the id of the item
\* it is a child of (Root for the root list) and its place among the
\* children.
Root == <<"root", 0>>

RECURSIVE OutlineEdges(_, _)
OutlineEdges(items, parent) ==
    UNION {{[id |-> items[k].id, type |-> items[k].type, level |-> items[k].level,
             priority |-> items[k].priority, text |-> items[k].text,
             parent |-> parent, place |-> k]}
           \cup OutlineEdges(items[k].children, items[k].id) : k \in 1..Len(items)}

\* The levels of the headings among the blocks, in document order.
HeadingLevels(blocks) ==
    LET headings == SelectSeq(blocks, LAMBDA node : node.type = "heading")
    IN [k \in 1..Len(headings) |-> IF headings[k].level = 0 THEN 1 ELSE headings[k].level]

\* The headings among the edges, in the order their nodes were met, are
\* those of the levels, each the child of the nearest heading before it
\* that has a lower level, and of the root when there is none.
HeadingsNested(levels, counters, edges) ==
    /\ Len(counters) = Len(levels)
    /\ \A k \in 1..Len(counters) :
           \E e \in edges :
               /\ e.id = <<"heading", counters[k]>>
               /\ e.level = levels[k]
               /\ LET js == {j \in 1..(k - 1) : levels[j] < levels[k]}
                  IN e.parent = IF js = {} THEN Root
                                ELSE <<"heading", counters[CHOOSE j \in js : \A q \in js : q <= j]>>

\* The children of every item, and the root list, are in the order in which
\* their nodes were met.
InDocumentOrder(edges) ==
    \A a, b \in edges :
        (a.parent = b.parent /\ a.place < b.place) => a.id[2] < b.id[2]

\* C27: every heading is a child of the nearest heading before it that has
\* a strictly lower level, and a root item when there is none; headings of
\* equal level that follow each other are siblings; the content without a
\* block has the empty outline.
C27_HeadingsNestedByLevel ==
    JustRan("buildOutlineTree") =>
        /\ HeadingsNested(HeadingLevels(content.content),
                          SortedSeq({e.id[2] : e \in {h \in OutlineEdges(outlineItems, Root) :
                                                        h.type = "heading"}}),
                          OutlineEdges(outlineItems, Root))
        /\ InDocumentOrder(OutlineEdges(outlineItems, Root))
        /\ Len(content.content) = 0 => outlineItems = <<>>

\* The outline of a heading of level 1, one of level 3 and one of level 2:
\* both are children of the first, and siblings.
C27_Witness ==
    /\ JustRan("buildOutlineTree")
    /\ HeadingLevels(content.content) = <<1, 3, 2>>
    /\ Len(outlineItems) = 1
    /\ Len(outlineItems[1].children) = 2
    /\ outlineItems[1].children[1].level = 3
    /\ outlineItems[1].children[2].level = 2

\* The task items and list items of the node, at every depth and in
\* document order.
RECURSIVE ListItemsOf(_)
ListItemsOf(node) ==
    (IF node.type \in {"taskItem", "listItem"} THEN <<node>> ELSE <<>>)
    \o Flatten([k \in 1..Len(node.content) |-> ListItemsOf(node.content[k])])

\* The items the blocks call for: one for every task item, list item and
\* top-level paragraph whose text is not blank, in document order, with the
\* type of the node, its text, the level of the first token of the text, and
\* the number of headings met before it (its section, 0 for the root).
ItemsCalledFor(blocks) ==
    LET nodes(k) == IF blocks[k].type = "paragraph" THEN <<blocks[k]>>
                    ELSE IF blocks[k].type = "heading" THEN <<>>
                    ELSE ListItemsOf(blocks[k])
        section(k) == Len(SelectSeq(SubSeq(blocks, 1, k), LAMBDA b : b.type = "heading"))
        called(k) == [j \in 1..Len(nodes(k)) |->
                         [type |-> CASE nodes(k)[j].type = "taskItem" -> "task"
                                     [] nodes(k)[j].type = "listItem" -> "listItem"
                                     [] OTHER -> "paragraph",
                          text |-> extractTextFromNode(nodes(k)[j]),
                          priority |-> LevelOfFirstToken(extractTextFromNode(nodes(k)[j])),
                          section |-> section(k)]]
    IN SelectSeq(Flatten([k \in 1..Len(blocks) |-> called(k)]),
                 LAMBDA item : ~IsBlank(item.text))

\* The items of the outline that are no headings, in the order in which
\* their nodes were met, each with the number of the heading it is a child
\* of.
ItemsOfOutline(edges, counters, headings) ==
    [k \in 1..Len(counters) |->
        LET e == CHOOSE e \in edges : e.type # "heading" /\ e.id[2] = counters[k]
        IN [type |-> e.type, text |-> e.text, priority |-> e.priority,
            section |-> IF e.parent = Root THEN 0
                        ELSE CHOOSE j \in 1..Len(headings) : headings[j] = e.parent[2]]]

OutlineItemsAsCalledFor ==
    ItemsOfOutline(OutlineEdges(outlineItems, Root),
                   SortedSeq({e.id[2] : e \in {h \in OutlineEdges(outlineItems, Root) :
                                                 h.type # "heading"}}),
                   SortedSeq({e.id[2] : e \in {h \in OutlineEdges(outlineItems, Root) :
                                                 h.type = "heading"}}))
       = ItemsCalledFor(content.content)

\* C28: the outline holds exactly one item for every task item, list item
\* and top-level paragraph with a text that is not blank, in document
\* order, under the heading met last before it (in the root list when
\* there is none) and with the priority extractPriority gives for its
\* text; it holds no item for a list, for a node of blank text, or for the
\* paragraph of a list item.
C28_OneItemPerItemNode ==
    JustRan("buildOutlineTree") => OutlineItemsAsCalledFor

\* No block is a block quote.
NoBlockquote(blocks) == \A k \in 1..Len(blocks) : blocks[k].type # "blockquote"

\* No list item of the blocks holds a list item.
NoNestedItem(blocks) ==
    \A k \in 1..Len(blocks) :
        \A j \in 1..Len(ListItemsOf(blocks[k])) :
            Len(ListItemsOf(ListItemsOf(blocks[k])[j])) = 1

\* What holds of buildOutlineTree: the items are as C28 says for every
\* content without a block quote and without a list item in a list item.
ItemsOfFlatContent ==
    (JustRan("buildOutlineTree") /\ NoBlockquote(content.content)
        /\ NoNestedItem(content.content)) => OutlineItemsAsCalledFor

\* The edge of the item list items that the edge e of another list is:
\* the item of the same id under the same parent.
SameItem(a, e) == a.id = e.id /\ a.parent = e.parent

PlaceIn(edges, e) == (CHOOSE a \in edges : SameItem(a, e)).place

\* The item a is to come before the item b: its priority is the lower one,
\* or it has one and b has none.
ComesBefore(a, b) ==
    /\ a.priority # undefined
    /\ b.priority = undefined \/ a.priority[1] < b.priority[1]

\* In the list of edges sorted every two items of one section that are no
\* headings are in the order of their priorities, an item without priority
\* behind the others, and in the order of the edges before when neither
\* comes before the other.
SectionsSorted(before, sorted) ==
    \A a, b \in sorted :
        (a.parent = b.parent /\ a.parent # Root /\ a.type # "heading" /\ b.type # "heading"
            /\ a.place < b.place) =>
            \/ ComesBefore(a, b)
            \/ ~ComesBefore(b, a) /\ PlaceIn(before, a) < PlaceIn(before, b)

\* C29: after sortItemsWithinSections the children of every heading that
\* are no headings are in ascending order of priority, those without a
\* priority behind all that have one, and items of equal priority, or both
\* without one, in the order they had.
C29_SectionsSortedByPriority ==
    JustRan("sortItemsWithinSections") =>
        SectionsSorted(OutlineEdges(outlineItems, Root), OutlineEdges(sortedItems, Root))

\* The section with the children of priorities none, 1, 0, 1 holds them in
\* the order 0, 1, 1, none, the two of priority 1 as they were.
C29_Witness ==
    /\ JustRan("sortItemsWithinSections")
    /\ content = NoContent
    /\ [k \in 1..Len(outlineItems[2].children) |-> outlineItems[2].children[k].priority]
          = <<undefined, <<1>>, <<0>>, <<1>>>>
    /\ [k \in 1..Len(sortedItems[2].children) |-> sortedItems[2].children[k].id[2]]
          = <<5, 4, 6, 3>>

\* An item without its place.
Placeless(e) == [id |-> e.id, type |-> e.type, level |-> e.level, priority |-> e.priority,
                 text |-> e.text, parent |-> e.parent]

\* The sorted list holds the items of the list before, each under the
\* parent it had; the headings of a section are behind its other items and
\* in the order they had.
SectionsKept(before, sorted) ==
    /\ {Placeless(e) : e \in sorted} = {Placeless(e) : e \in before}
    /\ Cardinality(sorted) = Cardinality(before)
    /\ \A a, b \in sorted :
           (a.parent = b.parent /\ a.parent # Root /\ a.type = "heading" /\ a.place < b.place) =>
               /\ b.type = "heading"
               /\ PlaceIn(before, a) < PlaceIn(before, b)

\* C30: sortItemsWithinSections moves no item to another section: every
\* heading at every depth has the children it had, its child headings in
\* the order they had and behind its other children, and the root list
\* is in the order it had.
C30_ItemsStayInTheirSection ==
    JustRan("sortItemsWithinSections") =>
        /\ SectionsKept(OutlineEdges(outlineItems, Root), OutlineEdges(sortedItems, Root))
        /\ [k \in 1..Len(sortedItems) |-> sortedItems[k].id]
              = [k \in 1..Len(outlineItems) |-> outlineItems[k].id]

\* The section with a heading, a task, a heading and a task holds the two
\* tasks and then the two headings; the root list is as it was.
C30_Witness ==
    /\ JustRan("sortItemsWithinSections")
    /\ content = NoContent
    /\ [k \in 1..Len(outlineItems[2].children) |-> outlineItems[2].children[k].type]
          = <<"heading", "task", "heading", "task">>
    /\ [k \in 1..Len(sortedItems[2].children) |-> sortedItems[2].children[k].id[2]]
          = <<4, 6, 3, 5>>
    /\ sortedItems[1].id = <<"item", 1>>
    /\ sortedItems[4].id = <<"item", 23>>


(***************************************************************************)
(* The scroll an outline item's click requests.                            *)
(***************************************************************************)
Max(a, b) == IF a > b THEN a ELSE b

\* The scroll offset the call read, and the coordinate its request was
\* computed of: that of the lookup that did not throw.
PageScroll(call) ==
    IF call.page.pageYOffset # 0 THEN call.page.pageYOffset ELSE call.page.scrollTop

CoordsUsed(call) ==
    IF call.page.lookups[1] # Thrown THEN call.page.lookups[1] ELSE call.page.lookups[2]

\* C31: a click on an outline item requests a smooth scroll to
\* top = max(0, page scroll offset + coords.top - 100); the requested top
\* is never negative, whatever the item's position and the scroll offset.
C31_ScrollTopNeverNegative ==
    \A k \in 1..Len(scrollLog) : \A e \in 1..Len(scrollLog[k].events) :
        scrollLog[k].events[e].type = "scrollTo" =>
            /\ scrollLog[k].events[e].top >= 0
            /\ scrollLog[k].events[e].top
                  = Max(0, PageScroll(scrollLog[k]) + CoordsUsed(scrollLog[k]).top - 100)

\* The positions at which the nodes from the k-th on and their descendants
\* start, the k-th starting at pos.
RECURSIVE StartsOf(_, _, _)
StartsOf(nodes, k, pos) ==
    IF k > Len(nodes) THEN {}
    ELSE {pos}
         \cup (IF nodes[k].type = "text" THEN {} ELSE StartsOf(nodes[k].content, 1, pos + 1))
         \cup StartsOf(nodes, k + 1, pos + calculateNodeSize(nodes[k]))

IsNearest(found, position, starts) ==
    /\ found \in starts
    /\ \A q \in starts : Abs(found - position) <= Abs(q - position)

ScrollsRequested(call) ==
    {e \in 1..Len(call.events) : call.events[e].type \in {"scrollTo", "scrollIntoView"}}

\* C32: when the coordinate lookup of the item's position throws,
\* scrollToPosition logs a warning and looks up the nearest position at
\* which a node of the document starts; when that lookup throws too it
\* scrolls the editor element into view.  Every call requests exactly one
\* scroll and none throws.
C32_FallbackAlwaysScrolls ==
    \A k \in 1..Len(scrollLog) :
        LET call == scrollLog[k]
        IN /\ ~call.threw
           /\ Cardinality(ScrollsRequested(call)) = 1
           /\ call.page.lookups[1] # Thrown => Len(call.events) = 1
           /\ call.page.lookups[1] = Thrown =>
                 /\ call.events[1] = Warned
                 /\ IsNearest(call.foundPos, call.position, StartsOf(content.content, 1, 0))
                 /\ call.events[2] = IF call.page.lookups[2] = Thrown THEN ScrollIntoView
                                     ELSE ScrollTo(TargetScroll(call.page.lookups[2], call.page))

\* The position of the item clicked lies beyond the document, the lookup
\* threw, and the lookup of the nearest node start, which is not the first
\* node's, gave the coordinates of the scroll.
C32_Witness ==
    /\ Len(scrollLog) = 1
    /\ scrollLog[1].position > ContentSize(content)
    /\ scrollLog[1].page.lookups[1] = Thrown
    /\ scrollLog[1].foundPos > 0
    /\ Len(scrollLog[1].events) = 2
    /\ scrollLog[1].events[2].type = "scrollTo"

(***************************************************************************)
(* The pattern of the custom tags.                                         *)
(***************************************************************************)
\* new RegExp throws a SyntaxError for a pattern in which a character that
\* opens or closes a group or a class, quantifies or escapes stands
\* unescaped.
PatternThrows(pattern) ==
    \E a \in 1..Len(pattern) : \E k \in 1..Len(pattern[a]) :
        /\ pattern[a][k].kind # "escaped"
        /\ pattern[a][k].ch \in {"*", "+", "?", "{", "}", "(", ")", "[", "]", "\\"}

\* The matches the pass accepts in the text of the document.
AcceptedMatches ==
    CustomTagRanges([k \in 1..Len(doc) |-> Cell(doc[k].ch, NoMark, NoMark)],
                    EnabledTags(customTags)).matches

\* C33: for every tag text, one with regex metacharacters included, the
\* pattern is built without an error, and every match the pattern accepts
\* is, up to case, the text of an enabled tag: in a pass of CustomTagMark
\* the lookup of the tag of a match always finds one, the branch that skips
\* a match is never taken.
C33_EveryMatchResolves ==
    last.hook \in {"CustomTagMark.onCreate", "CustomTagMark.onUpdate"} =>
        /\ ~PatternThrows(BuildPattern(EnabledTags(customTags)))
        /\ \A k \in 1..Len(AcceptedMatches) :
              FindCustomTag(EnabledTags(customTags), AcceptedMatches[k].text) # 0

\* The same for the tags spelled without a letter that has two lower-case
\* forms.
NoSigma(tags) ==
    \A k \in 1..Len(tags) : \A i \in 1..Len(tags[k].tag) : tags[k].tag[i] # "sigma"

MatchesOfPlainTagsResolve ==
    NoSigma(customTags) => C33_EveryMatchResolves

(***************************************************************************)
(* One transaction per pass.                                               *)
(***************************************************************************)
\* The pass the listener at the head of the queue runs, for the hooks of
\* the two extensions.
PassOf(hook) ==
    CASE hook = "PriorityMark.onCreate" -> PriorityOnCreate(doc, InUse)
      [] hook = "PriorityMark.onUpdate" -> PriorityOnUpdate(doc, InUse)
      [] hook = "CustomTagMark.onCreate" -> CustomTagOnCreate(doc, customTags, InUse)
      [] hook = "CustomTagMark.onUpdate" -> CustomTagOnUpdate(doc, customTags, InUse)

ExtensionHooks ==
    {"PriorityMark.onCreate", "PriorityMark.onUpdate",
     "CustomTagMark.onCreate", "CustomTagMark.onUpdate"}

\* The listeners one dispatch of the hook wakes: those of 'update', unless
\* the transaction carries preventUpdate, as those of the onUpdate hooks do.
WokenByOneDispatch(hook) ==
    IF hook \in {"PriorityMark.onCreate", "CustomTagMark.onCreate"}
    THEN UpdateListeners(hook) ELSE <<>>

OnePassOneTransaction(hook) ==
    LET pass == PassOf(hook)
        steps == Len(pass.removals) + Len(pass.adds)
    IN /\ last'.hook = hook
       /\ last'.dispatched = (steps > 0)
       /\ steps = 0 => doc' = doc /\ pending' = Tail(pending)
       /\ steps > 0 =>
             /\ doc' = IF hook \in {"PriorityMark.onCreate", "PriorityMark.onUpdate"}
                       THEN ApplyPriorityAdds(ApplyRemovals(doc, pass.removals), pass.adds)
                       ELSE ApplyCustomTagAdds(doc, pass.adds)
             /\ pending' = WokenByOneDispatch(hook) \o Tail(pending)

\* C34: a run of onCreate or onUpdate of an extension that comes to its end
\* dispatches one transaction that holds every removeMark and addMark of the
\* pass when there is any, and none when there is none: the document takes
\* all the steps at once and the 'update' listeners are woken once.
C34_OneTransactionPerPass ==
    [][\A hook \in ExtensionHooks :
          (Running(hook) /\ ~hung' /\ last' # last) => OnePassOneTransaction(hook)]_vars

\* PriorityMark.onUpdate has just dispatched the transaction that removed
\* the mark p1 of "p11" and added the mark p11.
C34_Witness ==
    /\ JustRan("PriorityMark.onUpdate")
    /\ last.dispatched
    /\ last.preventUpdate
    /\ Len(doc) = 3
    /\ \A i \in 1..3 : doc[i].pm # NoMark /\ doc[i].pm.priority = <<"p", "1", "1">>

(***************************************************************************)
(* Uids of the marks the passes manage.                                    *)
(***************************************************************************)
\* The spans of the priorityMarks and of the customTagMarks of the document:
\* a span starts where a character carries a mark that the character before
\* it does not carry.
ManagedSpans ==
    {<<"priorityMark", i>> : i \in {j \in 1..Len(doc) :
         doc[j].pm # NoMark /\ (j = 1 \/ doc[j - 1].pm # doc[j].pm)}}
    \cup {<<"customTagMark", i>> : i \in {j \in 1..Len(doc) :
         doc[j].ct # NoMark /\ (j = 1 \/ doc[j - 1].ct # doc[j].ct)}}

UidOfSpan(span) ==
    IF span[1] = "priorityMark" THEN doc[span[2]].pm.uid ELSE doc[span[2]].ct.uid

\* C35: two managed marks over different spans never carry the same uid,
\* whether a pass created them, the command setPriority or a paste rule
\* created them without a uid of their own, or PriorityMark.onUpdate
\* re-created them with the uid of the mark it replaced.  Stated of the
\* document every listener has run on.
C35_UidsUnique ==
    Quiescent =>
        \A s \in ManagedSpans : \A t \in ManagedSpans :
            s # t => UidOfSpan(s) # UidOfSpan(t)


(***************************************************************************)
(* The positions of the outline's items.                                   *)
(***************************************************************************)
\* The offsets at which the nodes start that processNode is called for, in
\* the order of the calls: every node but those inside a taskItem or a
\* listItem; a text character counts 1, the opening and the closing of any
\* other node 1 each.
RECURSIVE VisitedStarts(_, _, _)
VisitedStarts(nodes, k, pos) ==
    IF k > Len(nodes) THEN <<>>
    ELSE <<pos>>
         \o (IF nodes[k].type \in {"text", "taskItem", "listItem"} THEN <<>>
             ELSE VisitedStarts(nodes[k].content, 1, pos + 1))
         \o VisitedStarts(nodes, k + 1, pos + calculateNodeSize(nodes[k]))

\* The id and the position of every item of an outline.
RECURSIVE ItemPlaces(_)
ItemPlaces(items) ==
    UNION {{<<items[k].id, items[k].position>>} \cup ItemPlaces(items[k].children) :
              k \in 1..Len(items)}

\* C36: the position of every item of the outline buildOutlineTree builds is
\* the document offset at which the item's node starts, so no position
\* exceeds the size of the document.
C36_PositionIsNodeStart ==
    last.hook = "buildOutlineTree" =>
        \A place \in ItemPlaces(outlineItems) :
            /\ place[2] = VisitedStarts(content.content, 1, 0)[place[1][2]]
            /\ place[2] <= ContentSize(content)

\* The same for the item of the first block of the document.
FirstPositionIsNodeStart ==
    last.hook = "buildOutlineTree" =>
        \A place \in ItemPlaces(outlineItems) :
            place[1][2] = 1 => place[2] = 0


(***************************************************************************)
(* Task lists of the same uids.                                            *)
(***************************************************************************)
UidsOfTasks(ts) == {ts[k].uid : k \in 1..Len(ts)}

\* What the call of refreshTasks in this step is given: the list the caller
\* holds and the list read off the document.
SameUidsOtherList ==
    /\ UidsOfTasks(tasks) = UidsOfTasks(NewTasks(traverseMarks(doc)))
    /\ tasks # NewTasks(traverseMarks(doc))

\* C37: when the list read off the document differs from the caller's list
\* in due times or in order only, the uids being the same, refreshTasks
\* hands the caller the new list, reports no completed task, makes no
\* effect and leaves the position cache as it is.
C37_SameUidsNoCompletion ==
    [][((Running("Editor.onUpdate") \/ Running("Editor.onCreate")) /\ last' # last
          /\ SameUidsOtherList) =>
            /\ tasks' = NewTasks(traverseMarks(doc))
            /\ notified'
            /\ completed' = <<>>
            /\ effects' = <<>>
            /\ positions' = positions]_vars

\* The second task was dragged before the first: the caller holds the new
\* list, nothing was completed, both rectangles are cached.
C37_Witness ==
    /\ JustRan("Editor.onUpdate")
    /\ notified
    /\ Len(tasks) = 2
    /\ tasks[1].uid = <<"nanoid", 2>>
    /\ tasks[2].uid = <<"nanoid", 1>>
    /\ tasks[1].due # tasks[2].due
    /\ completed = <<>>
    /\ effects = <<>>
    /\ DOMAIN positions = {<<"nanoid", 1>>, <<"nanoid", 2>>}


(***************************************************************************)
(* The background worker.                                                  *)
(***************************************************************************)
TabSpaceTabs == {k \in 1..Len(tabs) : tabs[k].url = ExtensionUrl}

\* C38: openTabSpace creates a tab only when no open tab has the extension
\* URL, so whatever commands and toolbar clicks come, and however the calls
\* overlap while they await the tab query, at most one TabSpace tab is ever
\* created.
C38_AtMostOneTabSpaceTab == Cardinality(TabSpaceTabs) <= 1

\* A call creates a tab only when the tabs its query was answered with hold
\* no TabSpace tab, and then creates one.
CreatesWhenQueryFoundNone ==
    [][\A k \in 1..Len(calls) :
          openTabSpaceResume(k) =>
              (Len(tabs') = Len(tabs) + 1) = (FindExistingTab(calls[k].tabs) = 0)]_vars

\* What a poll's step tells of the timestamp it read and of the timestamps
\* read before it since the worker started.
PollKeepsRule(k) ==
    LET currentTime == parseIntOrNaN(polls[k].text)
    IN /\ reloads' # reloads =>
             /\ observed # <<>>
             /\ GreaterThan(currentTime, observed[Len(observed)])
       /\ observed = <<>> => reloads' = reloads
       /\ (observed # <<>> /\ currentTime = observed[Len(observed)]) => reloads' = reloads
       /\ reloads' = reloads => lastReloadTime' = currentTime

\* C39: the poller reloads the extension only when the timestamp it reads
\* is strictly greater than the one observed before it and one was
\* observed before: the first successful read never reloads, an unchanged
\* timestamp never reloads, and a failed fetch leaves the last observed
\* timestamp as it is.
C39_ReloadOnlyOnNewerTimestamp ==
    [][/\ \A k \in 1..Len(polls) :
             /\ PollResume(k) => PollKeepsRule(k)
             /\ FetchFails(k) => (lastReloadTime' = lastReloadTime /\ reloads' = reloads)
       /\ reloads' # reloads => \E k \in 1..Len(polls) : PollResume(k)]_vars

\* The worker was reloaded once, after it had read a timestamp greater than
\* the one before; started anew, it has read the timestamp 10 twice and did
\* not reload.
C39_Witness ==
    /\ reloads = 1
    /\ observed = <<<<10>>, <<10>>>>
    /\ lastReloadTime = <<10>>
====
